---- MODULE Spec2Model ----
(***************************************************************************)
(* A model of pydov's search / field-resolution engine (pydov/search.py,    *)
(* pydov/types/boring.py) and of its record / replay hooks                  *)
(* (pydov/util/hooks.py).                                                   *)
(*                                                                          *)
(* Python values: an optional value is a sequence, <<>> for None and <<v>>  *)
(* for the value v; a dict is a function whose DOMAIN is its key set; an    *)
(* exception is the record [type, msg, name], with type "" when nothing was *)
(* raised.  Text is a sequence of code points and bytes are a sequence of   *)
(* byte values wherever the code converts between the two.                  *)
(***************************************************************************)
EXTENDS Integers, Sequences, FiniteSets, TLC

VARIABLES
    remote,       \* the remote services: WFS schema, feature catalogue, capabilities
    cls,          \* class attributes AbstractSearch.__wfs and BoringSearch.__*
    self,         \* per BoringSearch instance: _fields, _wfs_fields and the two name maps
    fetched,      \* how often each remote document was requested in this process
    last,         \* the last call on the search API: its arguments and its outcome
    recorder,     \* the RepeatableLogRecorder of the record session, None without one
    replayer,     \* the RepeatableLogReplayer of the replay session, None without one
    ret,          \* the last call on a hook: the entry name it computed and its outcome
    first_event,      \* history: per entry name, the payload of the first event with it
    first_decodable,  \* history: per entry name, the first payload that was UTF-8
    interpreter,  \* the Python process: its phase and its atexit registry
    threads,      \* per thread, the hook method it is in and the step it is at
    lock,         \* per hook, the thread that holds self.lock, 0 while it is free
    status        \* the SimpleStatusHook of the process, None without one

searchvars == <<remote, cls, self, fetched, last>>
threadvars == <<threads, lock>>
hookvars == <<recorder, replayer, ret, first_event, first_decodable, interpreter,
              threads, lock, status>>
vars == <<remote, cls, self, fetched, last,
          recorder, replayer, ret, first_event, first_decodable, interpreter,
          threads, lock, status>>

----------------------------------------------------------------------------
(* Python helpers *)

None == <<>>
Some(v) == <<v>>
IsNone(o) == Len(o) = 0
Value(o) == o[1]

EmptyDict == [k \in {} |-> k]
\* d[k] = v
DictSet(d, k, v) == (k :> v) @@ d
\* d.get(k, default)
DictGet(d, k, default) == IF k \in DOMAIN d THEN d[k] ELSE default

NoExc == [type |-> "", msg |-> "", name |-> ""]
Exc(type, msg, name) == [type |-> type, msg |-> msg, name |-> name]

SeqRange(s) == {s[k] : k \in 1..Len(s)}
Contains(s, x) == \E k \in 1..Len(s) : s[k] = x

----------------------------------------------------------------------------
(* pydov/types/boring.py: the static field declarations *)

BoorMethodeFields == <<
    [name |-> "diepte_methode_van", source |-> "xml", sourcefield |-> "/van",
     definition |-> "Bovenkant van de laag", type |-> "float", notnull |-> FALSE],
    [name |-> "diepte_methode_tot", source |-> "xml", sourcefield |-> "/tot",
     definition |-> "Onderkant van de laag", type |-> "float", notnull |-> FALSE],
    [name |-> "boormethode", source |-> "xml", sourcefield |-> "/methode",
     definition |-> "Boormethode voor het diepte-interval.", type |-> "string",
     notnull |-> FALSE] >>

BoringFields == <<
    [name |-> "pkey_boring", source |-> "wfs", sourcefield |-> "fiche", type |-> "string"],
    [name |-> "boornummer", source |-> "wfs", sourcefield |-> "boornummer", type |-> "string"],
    [name |-> "x", source |-> "wfs", sourcefield |-> "X_mL72", type |-> "float"],
    [name |-> "y", source |-> "wfs", sourcefield |-> "Y_mL72", type |-> "float"],
    [name |-> "mv_mtaw", source |-> "xml",
     sourcefield |-> "/boring/oorspronkelijk_maaiveld/waarde",
     definition |-> "Maaiveldhoogte in mTAW", type |-> "float", notnull |-> FALSE],
    [name |-> "start_boring_mtaw", source |-> "wfs", sourcefield |-> "Z_mTAW", type |-> "float"],
    [name |-> "gemeente", source |-> "wfs", sourcefield |-> "gemeente", type |-> "string"],
    [name |-> "diepte_boring_van", source |-> "xml", sourcefield |-> "/boring/diepte_van",
     definition |-> "Startdiepte van de boring (in meter).", type |-> "float",
     notnull |-> TRUE],
    [name |-> "diepte_boring_tot", source |-> "wfs", sourcefield |-> "diepte_tot_m",
     type |-> "float"],
    [name |-> "datum_aanvang", source |-> "wfs", sourcefield |-> "datum_aanvang",
     type |-> "date"],
    [name |-> "uitvoerder", source |-> "wfs", sourcefield |-> "uitvoerder", type |-> "string"],
    [name |-> "boorgatmeting", source |-> "xml",
     sourcefield |-> "/boring/boorgatmeting/uitgevoerd",
     definition |-> "Is er een boorgatmeting uitgevoerd (ja/nee).", type |-> "boolean",
     notnull |-> FALSE] >>

\* Boring._subtypes = [BoorMethode]
BoringSubtypeFields == BoorMethodeFields

\* every declaration is returned, whatever its source
Type_get_fields_unfiltered(source) == BoringFields \o BoringSubtypeFields

\* AbstractDovType.get_fields(source, include_subtypes=True): the declarations of the
\* type whose source is in `source`, followed by those of its subtypes, in order.
Type_get_fields(source) ==
    SelectSeq(BoringFields, LAMBDA f : f.source \in source)
        \o SelectSeq(BoringSubtypeFields, LAMBDA f : f.source \in source)

\* AbstractDovType.get_field_names(): the names of all declared fields.
Type_get_field_names ==
    [k \in 1..Len(Type_get_fields({"wfs", "xml"})) |-> Type_get_fields({"wfs", "xml"})[k].name]

----------------------------------------------------------------------------
(* The remote documents *)

\* the wire-level property names a remote schema or feature catalogue may hold, in
\* the order the documents list them
PropertyOrder == <<"fiche", "gemeente", "boormethode", "pkey_boring", "extra">>
Properties == SeqRange(PropertyOrder)

\* str.strip() on the enumerated values of the catalogue
strip(v) ==
    CASE v = " a " -> "a"
      [] v = "  " -> ""
      [] OTHER -> v

\* wfs_schema['properties'].keys()
SchemaKeys(wfs_schema) ==
    SelectSeq(PropertyOrder, LAMBDA p : p \in DOMAIN wfs_schema.properties)

----------------------------------------------------------------------------
(* AbstractSearch._build_fields *)

\* _map_wfs_datatypes
map_wfs_datatypes == ("int" :> "integer") @@ ("decimal" :> "float")

\* both maps are keyed by the internal name
map_field_keyed_by_name(maps, f) ==
    [map_wfs_source_df |-> DictSet(maps.map_wfs_source_df, f.name, f.sourcefield),
     map_df_wfs_source |-> DictSet(maps.map_df_wfs_source, f.name, f.sourcefield)]

\* lines 209-210
map_field(maps, f) ==
    [map_wfs_source_df |-> DictSet(maps.map_wfs_source_df, f.sourcefield, f.name),
     map_df_wfs_source |-> DictSet(maps.map_df_wfs_source, f.name, f.sourcefield)]

\* lines 207-210: both name maps, filled from the WFS declarations of the type
RECURSIVE build_name_maps(_, _)
build_name_maps(df_wfs_fields, maps) ==
    IF df_wfs_fields = <<>> THEN maps
    ELSE build_name_maps(Tail(df_wfs_fields), map_field(maps, Head(df_wfs_fields)))

\* line 213: the schema property is described by the feature catalogue
in_feature_catalogue(wfs_field, feature_catalogue) ==
    wfs_field \in DOMAIN feature_catalogue.attributes

\* lines 229-231
stripped_values(values) ==
    SelectSeq([k \in 1..Len(values) |-> strip(values[k])], LAMBDA v : v # "")

\* lines 217-233: the descriptor of one WFS property
wfs_field_descriptor(name, wfs_type, fc_field) ==
    LET field == [name |-> name,
                  definition |-> fc_field.definition,
                  type |-> DictGet(map_wfs_datatypes, wfs_type, wfs_type),
                  notnull |-> fc_field.multiplicity[1] > 0,
                  cost |-> 1]
    IN  IF ~IsNone(fc_field.values) /\ Len(stripped_values(Value(fc_field.values))) > 0
        THEN [values |-> stripped_values(Value(fc_field.values))] @@ field
        ELSE field

\* lines 237-243: the descriptor of one XML declaration of the type
xml_field_descriptor(xml_field) ==
    [name |-> xml_field.name,
     type |-> xml_field.type,
     definition |-> xml_field.definition,
     notnull |-> xml_field.notnull,
     cost |-> 10]

\* lines 214-234: the descriptor of wfs_field is stored under `name`
store_wfs_field(acc, wfs_field, name, wfs_type, fc_field) ==
    [fields |-> DictSet(acc.fields, name, wfs_field_descriptor(name, wfs_type, fc_field)),
     wfs_fields |-> Append(acc.wfs_fields, wfs_field)]

\* every property of the schema is kept, described by the catalogue or not
add_wfs_field_unfiltered(acc, wfs_field, wfs_schema, feature_catalogue, map_wfs_source_df) ==
    store_wfs_field(acc, wfs_field, DictGet(map_wfs_source_df, wfs_field, wfs_field),
        wfs_schema.properties[wfs_field],
        DictGet(feature_catalogue.attributes, wfs_field,
                [definition |-> "", multiplicity |-> <<0, 1>>, values |-> None]))

\* lines 213-234: one turn of the loop; acc = [fields, wfs_fields]
add_wfs_field(acc, wfs_field, wfs_schema, feature_catalogue, map_wfs_source_df) ==
    IF in_feature_catalogue(wfs_field, feature_catalogue)
    THEN store_wfs_field(acc, wfs_field,
             DictGet(map_wfs_source_df, wfs_field, wfs_field),
             wfs_schema.properties[wfs_field],
             feature_catalogue.attributes[wfs_field])
    ELSE acc

\* lines 212-234: the loop over the schema properties
RECURSIVE build_wfs_fields(_, _, _, _, _)
build_wfs_fields(keys, wfs_schema, feature_catalogue, map_wfs_source_df, acc) ==
    IF keys = <<>> THEN acc
    ELSE build_wfs_fields(Tail(keys), wfs_schema, feature_catalogue, map_wfs_source_df,
             add_wfs_field(acc, Head(keys), wfs_schema, feature_catalogue,
                           map_wfs_source_df))

\* lines 236-244: the loop over the XML declarations
RECURSIVE build_xml_fields(_, _)
build_xml_fields(xml_fields, fields) ==
    IF xml_fields = <<>> THEN fields
    ELSE build_xml_fields(Tail(xml_fields),
             DictSet(fields, Head(xml_fields).name, xml_field_descriptor(Head(xml_fields))))

\* the WFS descriptors are written after the XML ones
merge_fields_wfs_last(maps, wfs) ==
    [fields |-> wfs.fields @@ build_xml_fields(Type_get_fields({"xml"}), EmptyDict),
     wfs_fields |-> wfs.wfs_fields,
     map_wfs_source_df |-> maps.map_wfs_source_df,
     map_df_wfs_source |-> maps.map_df_wfs_source]

\* lines 236-246: the XML declarations are merged into the WFS descriptors `wfs`
merge_fields(maps, wfs) ==
    [fields |-> build_xml_fields(Type_get_fields({"xml"}), wfs.fields),
     wfs_fields |-> wfs.wfs_fields,
     map_wfs_source_df |-> maps.map_wfs_source_df,
     map_df_wfs_source |-> maps.map_df_wfs_source]

\* lines 199-200 and 212-246, with the name maps `maps` of lines 207-210
build_fields_with(maps, wfs_schema, feature_catalogue) ==
    merge_fields(maps,
        build_wfs_fields(SchemaKeys(wfs_schema), wfs_schema, feature_catalogue,
            maps.map_wfs_source_df, [fields |-> EmptyDict, wfs_fields |-> <<>>]))

\* _build_fields(self, wfs_schema, feature_catalogue): `me` is the instance before the
\* call; the result holds the returned dict (fields) and the instance attributes the
\* call assigns.
build_fields(me, wfs_schema, feature_catalogue) ==
    build_fields_with(
        build_name_maps(Type_get_fields({"wfs"}),
            [map_wfs_source_df |-> me.map_wfs_source_df,
             map_df_wfs_source |-> me.map_df_wfs_source]),
        wfs_schema, feature_catalogue)

----------------------------------------------------------------------------
(* A call in progress: p = [cls, self, net, exc, phases], the class attributes,
   the instances, the remote requests made so far by this call, the exception
   raised (type "" while none is), and the phases the call has gone through: a
   raise ends the call, which is its phase "error". *)

Layer == "dov-pub:Boringen"

Raised(p) == p.exc.type # ""
Phase(p, phase) == [p EXCEPT !.phases = Append(@, phase)]
Raise(p, e) == [Phase(p, "error") EXCEPT !.exc = e]
Request(p, what) == [p EXCEPT !.net = Append(@, what)]

\* AbstractSearch._init_wfs: WebFeatureService(url, version) reads the capabilities
init_wfs(p) ==
    IF IsNone(p.cls.wfs)
    THEN Request([p EXCEPT !.cls.wfs = Some([contents |-> remote.contents])],
                 "GetCapabilities")
    ELSE p

\* AbstractSearch._get_layer, lines 101-105
check_layer(p) ==
    IF Layer \notin Value(p.cls.wfs).contents
    THEN Raise(p, Exc("LayerNotFoundError", "Layer could not be found", Layer))
    ELSE p

\* AbstractSearch._get_layer
get_layer(p) == check_layer(init_wfs(p))

\* the schema is requested although the class holds one
init_wfs_schema_uncached(p) ==
    [Request(init_wfs(p), "schema") EXCEPT !.cls.wfs_schema = Some(remote.schema)]

\* lines 506-507 with AbstractSearch._get_schema
init_wfs_schema(p) ==
    IF IsNone(p.cls.wfs_schema)
    THEN [Request(init_wfs(p), "schema") EXCEPT !.cls.wfs_schema = Some(remote.schema)]
    ELSE p

\* lines 509-510 with AbstractSearch._get_remote_metadata
get_remote_metadata(p) ==
    IF Raised(p) THEN p
    ELSE [Request(p, "metadata") EXCEPT !.cls.md_metadata = Some("MD_Metadata")]

init_md_metadata(p) ==
    IF Raised(p) \/ ~IsNone(p.cls.md_metadata) THEN p
    ELSE get_remote_metadata(get_layer(p))

\* lines 512-518 with AbstractSearch._get_csw_base_url
get_remote_featurecatalogue(p) ==
    IF Raised(p) THEN p
    ELSE [Request(p, "featurecatalogue")
             EXCEPT !.cls.fc_featurecatalogue = Some(remote.catalogue)]

init_fc_featurecatalogue(p) ==
    IF Raised(p) \/ ~IsNone(p.cls.fc_featurecatalogue) THEN p
    ELSE get_remote_featurecatalogue(get_layer(p))

\* the instance once _build_fields has returned `built.fields` (line 520)
Built(built) ==
    [fields |-> Some(built.fields),
     wfs_fields |-> Some(built.wfs_fields),
     map_wfs_source_df |-> built.map_wfs_source_df,
     map_df_wfs_source |-> built.map_df_wfs_source]

\* lines 520-521
assign_fields(p, i) ==
    IF Raised(p) THEN p
    ELSE [p EXCEPT !.self[i] =
             Built(build_fields(p.self[i], Value(p.cls.wfs_schema),
                                Value(p.cls.fc_featurecatalogue)))]

\* BoringSearch._init_fields
init_fields(p, i) ==
    IF Raised(p) \/ ~IsNone(p.self[i].fields) THEN p
    ELSE assign_fields(init_fc_featurecatalogue(init_md_metadata(init_wfs_schema(p))), i)

\* BoringSearch._init_namespace with AbstractSearch._get_namespace
init_namespace(p) ==
    IF IsNone(p.cls.wfs_namespace)
    THEN [Request(init_wfs(p), "namespace") EXCEPT !.cls.wfs_namespace = Some("namespace")]
    ELSE p

----------------------------------------------------------------------------
(* AbstractSearch._pre_search_validation *)

\* A filter expression is the sequence of its elements in document order, each
\* [tag, text]; query.findall('.//{ogc}PropertyName') selects the field references.
PropertyNames(filter) ==
    LET refs == SelectSeq(filter, LAMBDA e : e.tag = "PropertyName")
    IN  [k \in 1..Len(refs) |-> refs[k].text]

\* the first of the indices in `bad`, 0 when there is none: the iteration of a
\* loop that raises
FirstIndex(bad) ==
    IF bad = {} THEN 0 ELSE CHOOSE k \in bad : \A j \in bad : k <= j

\* only the absence of both is refused
check_location_query_neither(p, location, query) ==
    IF IsNone(location) /\ IsNone(query)
    THEN Raise(p, Exc("InvalidSearchParameterError",
                      "Provide either the location or the query parameter.", ""))
    ELSE p

\* lines 278-286
check_location_query(p, location, query) ==
    IF IsNone(location) /\ IsNone(query)
    THEN Raise(p, Exc("InvalidSearchParameterError",
                      "Provide either the location or the query parameter.", ""))
    ELSE IF ~IsNone(location) /\ ~IsNone(query)
    THEN Raise(p, Exc("InvalidSearchParameterError",
                      "Provide either the location or the query parameter, not both.", ""))
    ELSE p

\* every rejected name is reported as an unknown query parameter
query_error_unknown(p, me, name) ==
    Raise(p, Exc("InvalidFieldError", "Unknown query parameter", name))

\* lines 290-300, after _init_fields
query_error(p, me, name) ==
    IF name \in DOMAIN Value(me.fields)
    THEN Raise(p, Exc("InvalidFieldError", "Cannot use return field in query.", name))
    ELSE Raise(p, Exc("InvalidFieldError", "Unknown query parameter", name))

check_query_names(p, me, names, bad) ==
    IF bad = 0 THEN p ELSE query_error(p, me, names[bad])

check_query_of(p, me, names) ==
    check_query_names(p, me, names,
        FirstIndex({k \in 1..Len(names) :
            /\ names[k] \notin DOMAIN me.map_df_wfs_source
            /\ ~Contains(Value(me.wfs_fields), names[k])}))

check_query(p, i, query) ==
    IF Raised(p) THEN p ELSE check_query_of(p, p.self[i], PropertyNames(query))

\* every unresolved return field is reported as unknown, without a suggestion
unknown_return_field_generic(p, me, rf) ==
    Raise(p, Exc("InvalidFieldError", "Unknown return field", rf))

\* lines 304-316, after _init_fields
\* lines 306-311
unknown_return_field(p, me, rf) ==
    IF rf \in DOMAIN me.map_wfs_source_df
    THEN Raise(p, Exc("InvalidFieldError", "Unkown return field. Did you mean",
                      me.map_wfs_source_df[rf]))
    ELSE Raise(p, Exc("InvalidFieldError", "Unknown return field", rf))

\* lines 313-316
undeclared_return_field(p, rf) ==
    Raise(p, Exc("InvalidFieldError", "Field cannot be used as a return field", rf))

\* only the resolved field set is consulted
check_return_field_names_resolved_only(p, me, return_fields, unknown, undeclared) ==
    IF unknown # 0 THEN unknown_return_field(p, me, return_fields[unknown]) ELSE p

\* lines 304-316: the first loop reports the first unresolved name, the second the
\* first undeclared one
check_return_field_names(p, me, return_fields, unknown, undeclared) ==
    IF unknown # 0 THEN unknown_return_field(p, me, return_fields[unknown])
    ELSE IF undeclared # 0 THEN undeclared_return_field(p, return_fields[undeclared])
    ELSE p

check_return_fields(p, i, return_fields) ==
    IF Raised(p) THEN p
    ELSE check_return_field_names(p, p.self[i], return_fields,
             FirstIndex({k \in 1..Len(return_fields) :
                            return_fields[k] \notin DOMAIN Value(p.self[i].fields)}),
             FirstIndex({k \in 1..Len(return_fields) :
                            ~Contains(Type_get_field_names, return_fields[k])}))

\* lines 288-289 and 302-303: each block resolves the fields, then checks
validate_query(p, i, query) ==
    IF Raised(p) \/ IsNone(query) THEN p
    ELSE check_query(init_fields(p, i), i, Value(query))

validate_return_fields(p, i, return_fields) ==
    IF Raised(p) \/ IsNone(return_fields) THEN p
    ELSE check_return_fields(init_fields(p, i), i, Value(return_fields))

pre_search_validation(p, i, location, query, return_fields) ==
    validate_return_fields(
        validate_query(check_location_query(p, location, query), i, query),
        i, return_fields)

----------------------------------------------------------------------------
(* AbstractSearch._search and BoringSearch.search *)

\* the server-side cap the result count is compared with
MaxFeatures == 10000

\* lines 389-392: FilterRequest().setConstraint(query)
FilterRequest(query) == IF IsNone(query) THEN None ELSE Some(Value(query))

\* the text of every element is looked up, a field reference or not
translate_every_element(filter, map_df_wfs_source) ==
    [k \in 1..Len(filter) |->
        [filter[k] EXCEPT !.text = DictGet(map_df_wfs_source, @, @)]]

\* lines 399-402: every field reference is looked up in _map_df_wfs_source
translate(filter, map_df_wfs_source) ==
    [k \in 1..Len(filter) |->
        IF filter[k].tag = "PropertyName"
        THEN [filter[k] EXCEPT !.text = DictGet(map_df_wfs_source, @, @)]
        ELSE filter[k]]

\* lines 404-410: etree.tostring(filter_request, encoding='unicode')
RECURSIVE ElementsToString(_)
ElementsToString(es) ==
    IF es = <<>> THEN ""
    ELSE "<" \o Head(es).tag \o ">" \o Head(es).text \o "</" \o Head(es).tag \o ">"
             \o ElementsToString(Tail(es))

tostring(filter) == "<Filter>" \o ElementsToString(filter) \o "</Filter>"

\* the keys of the two name maps in iteration (insertion) order
SourceFieldOrder ==
    [k \in 1..Len(Type_get_fields({"wfs"})) |-> Type_get_fields({"wfs"})[k].sourcefield]
NameOrder ==
    [k \in 1..Len(Type_get_fields({"wfs"})) |-> Type_get_fields({"wfs"})[k].name]
Keys(d, order) == SelectSeq(order, LAMBDA k : k \in DOMAIN d)

IsPkey(name) == name \in {"pkey_boring"}     \* name.startswith('pkey')

\* list(set(names)): the names without duplicates, in any order
list_set(names) ==
    LET S == SeqRange(names)
    IN  {s \in [1..Cardinality(S) -> S] : SeqRange(s) = S}

\* only the requested fields are asked for
wfs_property_names_requested_only(me, return_fields) ==
    IF IsNone(return_fields)
    THEN {Keys(me.map_wfs_source_df, SourceFieldOrder)}
    ELSE LET keys == Keys(me.map_df_wfs_source, NameOrder)
             requested == SelectSeq(keys, LAMBDA k : Contains(Value(return_fields), k))
         IN  list_set([k \in 1..Len(requested) |-> me.map_df_wfs_source[requested[k]]])

\* lines 412-421: the lists wfs_property_names can be
wfs_property_names(me, return_fields) ==
    IF IsNone(return_fields)
    THEN {Keys(me.map_wfs_source_df, SourceFieldOrder)}
    ELSE LET keys == Keys(me.map_df_wfs_source, NameOrder)
             pkeys == SelectSeq(keys, IsPkey)
             requested == SelectSeq(keys, LAMBDA k : Contains(Value(return_fields), k))
             source(ks) == [k \in 1..Len(ks) |-> me.map_df_wfs_source[ks[k]]]
         IN  list_set(source(pkeys) \o source(requested))

\* the count is compared with >=
is_overflow_at_least(numberOfFeatures) == numberOfFeatures >= MaxFeatures

\* lines 431-434
is_overflow(numberOfFeatures) == numberOfFeatures = MaxFeatures

\* the counts a WFS response can report
FeatureCounts == {9999, MaxFeatures, 10001}

\* lines 404-410: the serialised filter of the request
serialise(filter_request, map_df_wfs_source) ==
    IF IsNone(filter_request) THEN None
    ELSE Some(tostring(translate(Value(filter_request), map_df_wfs_source)))

\* lines 423-427, _get_remote_wfs_feature: one request for every list
\* wfs_property_names can be
get_remote_wfs_feature(p, i, location, filter_request, return_fields) ==
    {[Request(p, "GetFeature") EXCEPT
         !.sent = Some([typename |-> Layer, bbox |-> location,
                        filter |-> serialise(filter_request, p.self[i].map_df_wfs_source),
                        propertyname |-> propertyname])] :
        propertyname \in wfs_property_names(p.self[i], return_fields)}

\* lines 429-436: the response reports numberOfFeatures
read_response(p, numberOfFeatures) ==
    IF is_overflow(numberOfFeatures)
    THEN Raise([p EXCEPT !.numberOfFeatures = Some(numberOfFeatures)],
               Exc("FeatureOverflowError", "Reached the limit of returned features.", ""))
    ELSE [p EXCEPT !.numberOfFeatures = Some(numberOfFeatures),
                   !.tree = Some([numberOfFeatures |-> numberOfFeatures])]

responses(requests) ==
    {read_response(q, numberOfFeatures) :
        q \in requests, numberOfFeatures \in FeatureCounts}

\* lines 395-436, once the validation has returned
search_validated(p, i, location, filter_request, return_fields) ==
    IF Raised(p) THEN {p}
    ELSE responses(get_remote_wfs_feature(init_wfs(init_namespace(Phase(p, "querying"))),
                                          i, location, filter_request, return_fields))

\* the namespace is looked up before the arguments are validated
search_wfs_validating_late(p, i, location, query, return_fields) ==
    search_validated(
        pre_search_validation(init_namespace(Phase(p, "validating")), i, location,
                              FilterRequest(query), return_fields),
        i, location, FilterRequest(query), return_fields)

\* _search: the outcomes the call can have, one for every count the server can
\* report and every order list(set(...)) can produce
search_wfs(p, i, location, query, return_fields) ==
    search_validated(
        pre_search_validation(Phase(p, "validating"), i, location, FilterRequest(query),
                              return_fields),
        i, location, FilterRequest(query), return_fields)

\* Boring.get_field_names(return_fields): the requested names, or all of them
columns(return_fields) ==
    IF IsNone(return_fields) THEN Type_get_field_names ELSE Value(return_fields)

\* lines 570-574: Boring.from_wfs and the DataFrame of what it parsed
parse_features(p, return_fields, rows) ==
    [Phase(Phase(p, "parsing"), "done") EXCEPT
        !.table = Some([columns |-> columns(return_fields), rows |-> rows])]

\* the features are parsed whatever _search did
to_table_whatever_happened(p, return_fields) ==
    parse_features(p, return_fields,
                   IF IsNone(p.tree) THEN 0 ELSE Value(p.tree).numberOfFeatures)

\* lines 567-574: an exception of _search leaves search; otherwise the features
\* are parsed into the table
to_table(p, return_fields) ==
    IF Raised(p) THEN p
    ELSE parse_features(p, return_fields, Value(p.tree).numberOfFeatures)

\* BoringSearch.search
search(p, i, location, query, return_fields) ==
    {to_table(r, return_fields) : r \in search_wfs(p, i, location, query, return_fields)}

\* AbstractSearch.get_fields
get_fields(p, i) == init_fields(p, i)

----------------------------------------------------------------------------
(* pydov/util/hooks.py: text, bytes and the zip archive *)

\* str.encode('utf8') of one code point (a Unicode scalar value)
encode_char(c) ==
    IF c < 128 THEN <<c>>
    ELSE IF c < 2048 THEN <<192 + (c \div 64), 128 + (c % 64)>>
    ELSE IF c < 65536
         THEN <<224 + (c \div 4096), 128 + ((c \div 64) % 64), 128 + (c % 64)>>
         ELSE <<240 + (c \div 262144), 128 + ((c \div 4096) % 64),
                128 + ((c \div 64) % 64), 128 + (c % 64)>>

\* str.encode('utf8')
RECURSIVE encode(_)
encode(text) ==
    IF text = <<>> THEN <<>> ELSE encode_char(Head(text)) \o encode(Tail(text))

\* the length of the UTF-8 sequence a lead byte starts, 0 for a byte that starts none
sequence_length(b) ==
    IF b < 128 THEN 1
    ELSE IF b \in 194..223 THEN 2
    ELSE IF b \in 224..239 THEN 3
    ELSE IF b \in 240..244 THEN 4
    ELSE 0

\* the continuation bytes a lead byte admits as its first: no overlong form, no
\* surrogate, nothing above U+10FFFF
second_bytes(b) ==
    IF b = 224 THEN 160..191
    ELSE IF b = 237 THEN 128..159
    ELSE IF b = 240 THEN 144..191
    ELSE IF b = 244 THEN 128..143
    ELSE 128..191

\* whether data starts with one well-formed UTF-8 sequence
starts_with_char(data) ==
    /\ data # <<>>
    /\ sequence_length(data[1]) \in 1..Len(data)
    /\ sequence_length(data[1]) > 1 => data[2] \in second_bytes(data[1])
    /\ \A k \in 3..sequence_length(data[1]) : data[k] \in 128..191

\* the code point of the well-formed sequence data starts with
decode_char(data) ==
    IF sequence_length(data[1]) = 1 THEN data[1]
    ELSE IF sequence_length(data[1]) = 2 THEN (data[1] - 192) * 64 + (data[2] - 128)
    ELSE IF sequence_length(data[1]) = 3
         THEN (data[1] - 224) * 4096 + (data[2] - 128) * 64 + (data[3] - 128)
         ELSE (data[1] - 240) * 262144 + (data[2] - 128) * 4096
                  + (data[3] - 128) * 64 + (data[4] - 128)

\* whether bytes.decode('utf8') returns; it raises UnicodeDecodeError otherwise
RECURSIVE decodable(_)
decodable(data) ==
    \/ data = <<>>
    \/ /\ starts_with_char(data)
       /\ decodable(SubSeq(data, sequence_length(data[1]) + 1, Len(data)))

\* bytes.decode('utf8') of decodable bytes
RECURSIVE decode(_)
decode(data) ==
    IF data = <<>> THEN <<>>
    ELSE <<decode_char(data)>>
             \o decode(SubSeq(data, sequence_length(data[1]) + 1, Len(data)))

\* the text of a string literal of the source
XmlDeclaration ==
    <<60, 63, 120, 109, 108, 32, 118, 101, 114, 115, 105, 111, 110, 61, 39, 49, 46,
      48, 39, 32, 101, 110, 99, 111, 100, 105, 110, 103, 61, 39, 117, 116, 102, 56,
      39, 63, 62, 10>>

\* etree.tostring(element, encoding='unicode'): an element is [tag, text]
tostring_unicode(element) ==
    <<60>> \o element.tag \o <<62>> \o element.text
        \o <<60, 47>> \o element.tag \o <<62>>

\* etree.tostring(element, encoding='utf8'): bytes, led by the XML declaration
tostring_utf8(element) == encode(XmlDeclaration \o tostring_unicode(element))

RECURSIVE Sum(_)
Sum(s) == IF s = <<>> THEN 0 ELSE Head(s) + Sum(Tail(s))

\* md5(data).hexdigest(): the digest is abstracted to a checksum with two values,
\* which makes distinct requests share a key
Digests == <<"0cc175b9c0f1b6a831c399e269772661", "92eb5ffee6ae2fec3ad71c777531578f">>
md5(data) == Digests[(Sum(data) % Len(Digests)) + 1]

\* a ZipFile is the sequence of its entries [name, data]
namelist(file) == [k \in 1..Len(file) |-> file[k].name]

\* ZipFile.writestr(name, text): text is stored as its UTF-8 bytes
writestr(file, name, text) == Append(file, [name |-> name, data |-> encode(text)])

\* ZipFile.open(name).read(): of the entries called name, the one written last
read(file, name) ==
    file[CHOOSE k \in 1..Len(file) :
            /\ file[k].name = name
            /\ \A j \in (k + 1)..Len(file) : file[j].name # name].data

----------------------------------------------------------------------------
(* RepeatableLogRecorder and RepeatableLogReplayer: a handler returns
   [file, log_path, value, exc], the archive it leaves, the entry name it
   computed, what it returns and what it raises *)

Returned(file, log_path, value) ==
    [file |-> file, log_path |-> log_path, value |-> value, exc |-> NoExc]
Failed(file, log_path, exc) ==
    [file |-> file, log_path |-> log_path, value |-> None, exc |-> exc]

\* 'meta/' + hash + '.log', 'wfs/' + hash + '.log', 'xml/' + hash + '.log'
log_path_of(namespace, hash) == namespace \o "/" \o hash \o ".log"

\* the payload is written although the archive has an entry of that name
record_overwriting(file, log_path, payload) ==
    IF ~decodable(payload)
    THEN Failed(file, log_path, Exc("UnicodeDecodeError", "invalid start byte", ""))
    ELSE Returned(writestr(file, log_path, decode(payload)), log_path, None)

\* lines 305-306, 325-328, 348-349
record(file, log_path, payload) ==
    IF Contains(namelist(file), log_path) THEN Returned(file, log_path, None)
    ELSE IF ~decodable(payload)
    THEN Failed(file, log_path, Exc("UnicodeDecodeError", "invalid start byte", ""))
    ELSE Returned(writestr(file, log_path, decode(payload)), log_path, None)

\* the bytes of the entry are read as Latin-1
read_text_latin1(file, log_path) ==
    Returned(file, log_path, Some(read(file, log_path)))

\* lines 315-316, 338-339, 359-360, 389-390, 405-406, 421-422
read_text(file, log_path) ==
    IF decodable(read(file, log_path))
    THEN Returned(file, log_path, Some(decode(read(file, log_path))))
    ELSE Failed(file, log_path, Exc("UnicodeDecodeError", "invalid start byte", ""))

\* lines 312-318, 335-341, 356-362
inject_recorded(file, log_path) ==
    IF ~Contains(namelist(file), log_path) THEN Returned(file, log_path, None)
    ELSE read_text(file, log_path)

\* a missing entry is answered like the recorder answers it
replay_or_none(file, log_path, what, hash) ==
    IF ~Contains(namelist(file), log_path) THEN Returned(file, log_path, None)
    ELSE read_text(file, log_path)

\* lines 383-392, 399-408, 415-424
replay(file, log_path, what, hash) ==
    IF ~Contains(namelist(file), log_path)
    THEN Failed(file, log_path,
                Exc("LogReplayError", "Failed to replay log: no entry for " \o what, hash))
    ELSE read_text(file, log_path)

\* lines 306, 326-328, 349: the write that follows a check that found no entry
write_payload(file, log_path, payload) ==
    IF ~decodable(payload)
    THEN Failed(file, log_path, Exc("UnicodeDecodeError", "invalid start byte", ""))
    ELSE Returned(writestr(file, log_path, decode(payload)), log_path, None)

\* the methods AbstractHook declares that answer no inject query
LifecycleMethods ==
    {"meta_received", "wfs_search_init", "wfs_search_query", "wfs_search_result",
     "wfs_search_result_features", "xml_requested", "xml_cache_hit", "xml_downloaded",
     "xml_retrieved"}

\* the event is written to the archive of the hook
AbstractHook_event_recording(me, method, payload) ==
    [me EXCEPT !.log_archive_file =
        Append(@, [name |-> "xml/" \o md5(payload) \o ".log", data |-> payload])]

\* lines 31-32, 37-46, 48-59, 61-70, 72-85, 90-105, 107-121, 123-137, 139-154: the
\* body of an event of AbstractHook is `pass`; a hook that does not override it
\* is left as it was
AbstractHook_event(me, method, payload) == me

\* the methods that record an event and those that answer an inject query
EventMethods == {"meta_received", "wfs_search_result_features", "xml_retrieved"}
InjectMethods == {"inject_meta_response", "inject_wfs_result_features",
                  "inject_xml_retrieved"}

\* the namespace of the entries a method reads or writes
MethodNamespace(method) ==
    CASE method \in {"meta_received", "inject_meta_response"} -> "meta"
      [] method \in {"wfs_search_result_features", "inject_wfs_result_features"} -> "wfs"
      [] method \in {"xml_retrieved", "inject_xml_retrieved"} -> "xml"

\* only the method that reads runs under self.lock
takes_lock_to_read(method) == method = "inject_xml_retrieved"

\* no method runs under self.lock
takes_lock_never(method) == FALSE

\* lines 344, 352, 411: the methods whose body is `with self.lock:`
takes_lock(method) == method \in {"xml_retrieved", "inject_xml_retrieved"}

RepeatableLogRecorder_meta_received(file, url, response) ==
    record(file, log_path_of("meta", md5(encode(url))), response)

RepeatableLogRecorder_inject_meta_response(file, url) ==
    inject_recorded(file, log_path_of("meta", md5(encode(url))))

RepeatableLogRecorder_wfs_search_result_features(file, query, features) ==
    record(file, log_path_of("wfs", md5(encode(tostring_unicode(query)))),
           tostring_utf8(features))

RepeatableLogRecorder_inject_wfs_result_features(file, query) ==
    inject_recorded(file, log_path_of("wfs", md5(encode(tostring_unicode(query)))))

RepeatableLogRecorder_xml_retrieved(file, pkey_object, xml) ==
    record(file, log_path_of("xml", md5(encode(pkey_object))), xml)

RepeatableLogRecorder_inject_xml_retrieved(file, pkey_object) ==
    inject_recorded(file, log_path_of("xml", md5(encode(pkey_object))))

RepeatableLogReplayer_inject_meta_response(file, url) ==
    replay(file, log_path_of("meta", md5(encode(url))), "meta response of ",
           md5(encode(url)))

RepeatableLogReplayer_inject_wfs_result_features(file, query) ==
    replay(file, log_path_of("wfs", md5(encode(tostring_unicode(query)))),
           "WFS result of ", md5(encode(tostring_unicode(query))))

\* a permanent key without an xml entry is answered from the meta namespace
RepeatableLogReplayer_inject_xml_retrieved_any_namespace(file, pkey_object) ==
    IF Contains(namelist(file), log_path_of("xml", md5(encode(pkey_object))))
    THEN replay(file, log_path_of("xml", md5(encode(pkey_object))), "XML result of ",
                md5(encode(pkey_object)))
    ELSE replay(file, log_path_of("meta", md5(encode(pkey_object))), "XML result of ",
                md5(encode(pkey_object)))

RepeatableLogReplayer_inject_xml_retrieved(file, pkey_object) ==
    replay(file, log_path_of("xml", md5(encode(pkey_object))), "XML result of ",
           md5(encode(pkey_object)))

\* pydov.__version__, as text
PydovVersion == <<48, 46, 49>>

\* time.strftime and the float of time.perf_counter, as the text of a clock reading
strftime(now) == <<48 + now>>
float_repr(x) == <<48 + x>>

\* the keys of the metadata in insertion order, and their text
MetadataOrder == <<"pydov_version", "start_run", "end_run", "ran_for">>
KeyText ==
    [pydov_version |-> <<112, 121, 100, 111, 118, 95, 118, 101, 114, 115, 105, 111, 110>>,
     start_run |-> <<115, 116, 97, 114, 116, 95, 114, 117, 110>>,
     end_run |-> <<101, 110, 100, 95, 114, 117, 110>>,
     ran_for |-> <<114, 97, 110, 95, 102, 111, 114>>]

\* one member of a JSON object: "key": value, a string in quotes, a float bare
json_member(metadata, k) ==
    <<34>> \o KeyText[k] \o <<34, 58, 32>>
        \o (IF k = "ran_for" THEN metadata[k] ELSE <<34>> \o metadata[k] \o <<34>>)

\* json.dumps(metadata, indent=2): the members in the order `keys` of the dict
RECURSIVE json_members(_, _)
json_members(metadata, keys) ==
    IF keys = <<>> THEN <<>>
    ELSE <<10, 32, 32>> \o json_member(metadata, Head(keys))
             \o (IF Len(keys) > 1 THEN <<44>> ELSE <<>>)
             \o json_members(metadata, Tail(keys))

json_dumps(metadata, keys) ==
    <<123>> \o json_members(metadata, SelectSeq(keys, LAMBDA k : k \in DOMAIN metadata))
            \o <<10, 125>>

\* lines 294-295: end_run and ran_for join the metadata
exit_metadata(me, now) ==
    [k \in DOMAIN me.metadata \cup {"end_run", "ran_for"} |->
        IF k = "end_run" THEN strftime(now)
        ELSE IF k = "ran_for" THEN float_repr(now - me.started_at)
        ELSE me.metadata[k]]

\* pydov_exit, lines 293-299: the trailer is written and the archive closed
RepeatableLogRecorder_pydov_exit(me, now) ==
    [me EXCEPT
        !.metadata = exit_metadata(me, now),
        !.log_archive_file =
            writestr(@, "metadata.json", json_dumps(exit_metadata(me, now), MetadataOrder)),
        !.closed = TRUE]

\* lines 376-377: the archive is closed
RepeatableLogReplayer_pydov_exit(me) == [me EXCEPT !.closed = TRUE]

\* the module atexit: a process runs the main flow, then, whether the main flow
\* returned or raised, the registered functions, last registered first, and exits
NewInterpreter == [phase |-> "running", ended |-> "", atexit |-> <<>>, ran |-> <<>>]

\* no function is registered
atexit_register_nothing(interp, func) == interp

\* lines 291 and 374: atexit.register(self.pydov_exit)
atexit_register(interp, func) == [interp EXCEPT !.atexit = Append(@, func)]

\* lines 267-291: the recorder on a new archive that holds the sources `file`
RepeatableLogRecorder_init(file, now) ==
    [log_archive_file |-> file, closed |-> FALSE,
     metadata |-> [pydov_version |-> PydovVersion, start_run |-> strftime(now)],
     started_at |-> now]

\* lines 366-372: the replayer on the archive `file`
RepeatableLogReplayer_init(file) == [log_archive_file |-> file, closed |-> FALSE]

----------------------------------------------------------------------------
(* The bounds of the model and the inputs of the calls *)

MaxInstances == 2          \* BoringSearch instances of the process
MaxFetches == 3            \* cap of the per-document request counters

Instances == 1..MaxInstances

\* the remote documents a process caches
Documents == {"GetCapabilities", "schema", "metadata", "featurecatalogue", "namespace"}

FcAttribute(property, kind) ==
    [definition |-> "definition of " \o property,
     multiplicity |-> IF kind = "mandatory" THEN <<1, 1>> ELSE <<0, 1>>,
     values |-> IF kind = "mandatory" THEN Some(<<" a ", "  ", "b">>) ELSE None]

\* every schema over `properties` with declared types in `types`
Schemas(properties, types) ==
    {[properties |-> f] : f \in UNION {[S -> types] : S \in SUBSET properties}}

\* every feature catalogue over `properties`
Catalogues(properties, kinds) ==
    {[attributes |-> [q \in DOMAIN f |-> FcAttribute(q, f[q])]] :
        f \in UNION {[S -> kinds] : S \in SUBSET properties}}

\* remote services of the search runs: "gemeente" is always described by both
\* documents, "fiche" by the schema and possibly by the catalogue, "boormethode"
\* and "extra" by both or by neither; one service does not publish the layer
SearchRemotes ==
    {[schema |-> [properties |-> [q \in {"fiche", "gemeente"} \cup X |-> "string"]],
      catalogue |-> [attributes |-> [q \in C \cup X |-> FcAttribute(q, "optional")]],
      contents |-> {Layer}] :
        X \in {{}, {"boormethode", "extra"}},
        C \in {{"gemeente"}, {"fiche", "gemeente"}}}
    \cup
    {[schema |-> [properties |-> [q \in {"fiche", "gemeente"} |-> "string"]],
      catalogue |-> [attributes |->
                        [q \in {"fiche", "gemeente"} |-> FcAttribute(q, "optional")]],
      contents |-> {}]}

\* remote services of the field-resolution runs
FieldRemotes ==
    {[schema |-> sch, catalogue |-> c, contents |-> {Layer}] :
        sch \in Schemas({"fiche", "boormethode", "pkey_boring", "extra"},
                        {"int", "decimal", "double"}),
        c \in Catalogues({"fiche", "boormethode", "pkey_boring", "extra"},
                         {"optional", "mandatory"})}

BBox == <<115021, 196339, 118120, 197925>>
Locations == {None, Some(BBox)}

PropertyIsEqualTo(propertyname, literal) ==
    << [tag |-> "PropertyName", text |-> propertyname],
       [tag |-> "Literal", text |-> literal] >>

Queries ==
    {None,
     Some(PropertyIsEqualTo("pkey_boring", "pkey_boring")),
     Some(PropertyIsEqualTo("fiche", "1")),
     Some(PropertyIsEqualTo("boormethode", "1")),
     Some(PropertyIsEqualTo("gemeente", "1") \o PropertyIsEqualTo("nope", "1"))}

ReturnFields ==
    {None,
     Some(<<"pkey_boring">>),
     Some(<<"gemeente", "boormethode">>),
     Some(<<"fiche">>),
     Some(<<"extra", "nope">>)}

\* queries of the validation runs: an internal name with a literal of the same
\* text, a wire-level name, a name that is an XML declaration and possibly a WFS
\* property, a declared WFS field the service may not publish, an XML-only field,
\* and a name nothing knows after a valid one
ValidationQueries ==
    {None,
     Some(PropertyIsEqualTo("pkey_boring", "pkey_boring")),
     Some(PropertyIsEqualTo("fiche", "x")),
     Some(PropertyIsEqualTo("boormethode", "1")),
     Some(PropertyIsEqualTo("x", "1")),
     Some(PropertyIsEqualTo("mv_mtaw", "1")),
     Some(PropertyIsEqualTo("gemeente", "1") \o PropertyIsEqualTo("nope", "1"))}

\* return fields of the validation runs
ValidationReturnFields ==
    {None,
     Some(<<"pkey_boring", "gemeente">>),
     Some(<<"gemeente", "mv_mtaw", "gemeente">>),
     Some(<<"fiche">>),
     Some(<<"X_mL72">>),
     Some(<<"x">>),
     Some(<<"extra">>),
     Some(<<"gemeente", "nope", "fiche">>)}

\* the most entries the three namespaces of an archive get
MaxEntries == 2

\* the threads that call the hooks
MaxThreads == 2
Threads == 1..MaxThreads

\* request URLs "a", "b" and "é": the last two share a digest
Urls == {<<97>>, <<98>>, <<233>>}
\* permanent keys "b" and "é", which share a digest
PkeyObjects == {<<98>>, <<233>>}
\* GetFeature requests, as elements <q>b</q> and <q>é</q>, which share a digest
HookQueries == {[tag |-> <<113>>, text |-> t] : t \in {<<98>>, <<233>>}}
\* response bodies: b"a", "é" in UTF-8, and a byte no UTF-8 text holds
Responses == {<<97>>, <<195, 169>>, <<255>>}
\* GetFeature responses, as elements <f>...</f>
FeatureTrees == {[tag |-> <<102>>, text |-> t] : t \in {<<97>>, <<233>>}}

----------------------------------------------------------------------------
(* The state machine *)

\* AbstractSearch.__init__ (lines 40-47) and the class attributes (27, 488-491)
NewInstance ==
    [fields |-> None, wfs_fields |-> None,
     map_wfs_source_df |-> EmptyDict, map_df_wfs_source |-> EmptyDict]

NewClass ==
    [wfs |-> None, wfs_schema |-> None, wfs_namespace |-> None,
     md_metadata |-> None, fc_featurecatalogue |-> None]

NoCall ==
    [op |-> "", instance |-> 0, location |-> None, query |-> None,
     return_fields |-> None, exc |-> NoExc, net |-> <<>>, sent |-> None,
     numberOfFeatures |-> None, tree |-> None, table |-> None, events |-> <<>>,
     phases |-> <<>>]

\* a call starts on the current state of the process; `events` are the hook events
\* the call emits and the inject queries it makes: no statement of search.py calls
\* a hook, so none of the operators of the call adds to it
Call ==
    [cls |-> cls, self |-> self, net |-> <<>>, exc |-> NoExc, sent |-> None,
     numberOfFeatures |-> None, tree |-> None, table |-> None, events |-> <<>>,
     phases |-> <<>>]

Count(s, x) == Cardinality({k \in 1..Len(s) : s[k] = x})

\* what a finished call r leaves behind
Finish(r, op, i, location, query, return_fields) ==
    /\ \A d \in Documents : fetched[d] + Count(r.net, d) <= MaxFetches
    /\ cls' = r.cls
    /\ self' = r.self
    /\ fetched' = [d \in Documents |-> fetched[d] + Count(r.net, d)]
    /\ last' = [op |-> op, instance |-> i, location |-> location, query |-> query,
                return_fields |-> return_fields, exc |-> r.exc, net |-> r.net,
                sent |-> r.sent, numberOfFeatures |-> r.numberOfFeatures,
                tree |-> r.tree, table |-> r.table, events |-> r.events,
                phases |-> r.phases]
    /\ UNCHANGED <<remote, hookvars>>

InitProcess ==
    /\ cls = NewClass
    /\ self = [i \in Instances |-> NewInstance]
    /\ fetched = [d \in Documents |-> 0]
    /\ last = NoCall

NoHookCall == [call |-> "", log_path |-> "", value |-> None, exc |-> NoExc]

\* a thread that is in no hook method
Idle ==
    [hook |-> "", method |-> "", log_path |-> "", payload |-> <<>>, pc |-> "idle",
     value |-> None, exc |-> NoExc]

\* no hook has been called and no event has been seen
InitHistory ==
    /\ ret = NoHookCall
    /\ threads = [t \in Threads |-> Idle]
    /\ lock = [hook \in {"recorder", "replayer"} |-> 0]
    /\ first_event = EmptyDict
    /\ first_decodable = EmptyDict
    /\ status = None

\* a process without hooks
InitNoHooks ==
    /\ recorder = None
    /\ replayer = None
    /\ interpreter = NewInterpreter
    /\ InitHistory

Init ==
    /\ remote \in SearchRemotes
    /\ InitProcess
    /\ InitNoHooks

InitFields ==
    /\ remote \in FieldRemotes
    /\ InitProcess
    /\ InitNoHooks

\* b.search(location, query, return_fields)
Search(i, location, query, return_fields) ==
    \E r \in search(Call, i, location, query, return_fields) :
        Finish(r, "search", i, location, query, return_fields)

\* b.get_fields()
GetFields(i) ==
    \E r \in {get_fields(Call, i)} :
        Finish(r, "get_fields", i, None, None, None)

DoSearch ==
    \E i \in Instances, location \in Locations, query \in Queries,
       return_fields \in ReturnFields :
        Search(i, location, query, return_fields)

DoGetFields == \E i \in Instances : GetFields(i)

Next == DoSearch \/ DoGetFields

Spec == Init /\ [][Next]_vars

SpecFields == InitFields /\ [][DoGetFields]_vars

\* searches of one instance over the validation inputs
DoValidatedSearch ==
    \E location \in Locations, query \in ValidationQueries,
       return_fields \in ValidationReturnFields :
        Search(1, location, query, return_fields)

SpecValidation == Init /\ [][DoValidatedSearch]_vars

\* an archive of an earlier record session that holds a GetFeature response under
\* every digest: whatever the query of a search is, its entry is there
RECURSIVE WfsArchive(_)
WfsArchive(hashes) ==
    IF hashes = <<>> THEN <<>>
    ELSE writestr(WfsArchive(Tail(hashes)), log_path_of("wfs", Head(hashes)),
                  tostring_unicode([tag |-> <<102>>, text |-> <<97>>]))

\* a process in which a RepeatableLogReplayer on that archive is registered
InitHooked ==
    /\ remote \in SearchRemotes
    /\ InitProcess
    /\ InitHistory
    /\ recorder = None
    /\ replayer = Some(RepeatableLogReplayer_init(WfsArchive(Digests)))
    /\ interpreter = atexit_register(NewInterpreter, "RepeatableLogReplayer.pydov_exit")

\* pydov.hooks: the hooks of the process, in the order they were registered
Registered ==
    (IF IsNone(recorder) THEN <<>> ELSE <<"recorder">>)
        \o (IF IsNone(replayer) THEN <<>> ELSE <<"replayer">>)

SpecHooked == InitHooked /\ [][DoValidatedSearch]_vars

----------------------------------------------------------------------------
(* The record session and the replay session that follows it *)

\* lines 284-287: the sources pydov_root.glob('**\\*.py') matches are stored
\* first; the pattern matches none where the path separator is not a backslash
SourceEntries == {<<>>, <<[name |-> "pydov/search.py", data |-> <<35>>]>>}

\* RepeatableLogRecorder.__init__
InitLog ==
    /\ remote \in {r \in SearchRemotes : r.contents = {}}
    /\ InitProcess
    /\ recorder \in {Some(RepeatableLogRecorder_init(f, 0)) : f \in SourceEntries}
    /\ replayer = None
    /\ interpreter = atexit_register(NewInterpreter, "RepeatableLogRecorder.pydov_exit")
    /\ InitHistory

Recording == ~IsNone(recorder) /\ ~Value(recorder).closed

\* the main flow of the process is running
Running == interpreter.phase = "running"

LogPaths == {log_path_of(namespace, Digests[k]) :
                namespace \in {"meta", "wfs", "xml"}, k \in 1..Len(Digests)}

\* the number of entries of the three namespaces
LogEntries(file) == Len(SelectSeq(file, LAMBDA e : e.name \in LogPaths))

\* what a recorder event that returned r leaves behind
Recorded(call, r, payload) ==
    /\ Running
    /\ r.file # Value(recorder).log_archive_file =>
           LogEntries(Value(recorder).log_archive_file) < MaxEntries
    /\ recorder' = Some([Value(recorder) EXCEPT !.log_archive_file = r.file])
    /\ ret' = [call |-> call, log_path |-> r.log_path, value |-> r.value, exc |-> r.exc]
    /\ first_event' = IF r.log_path \in DOMAIN first_event THEN first_event
                      ELSE DictSet(first_event, r.log_path, payload)
    /\ first_decodable' = IF r.log_path \in DOMAIN first_decodable \/ ~decodable(payload)
                          THEN first_decodable
                          ELSE DictSet(first_decodable, r.log_path, payload)
    /\ UNCHANGED <<replayer, status, interpreter, threadvars, searchvars>>

\* what an inject_* call that returned r leaves behind
Injected(call, r) ==
    /\ Running
    /\ ret' = [call |-> call, log_path |-> r.log_path, value |-> r.value, exc |-> r.exc]
    /\ UNCHANGED <<recorder, replayer, first_event, first_decodable, status, interpreter,
                   threadvars, searchvars>>

MetaReceived(url, response) ==
    /\ Recording
    /\ \E r \in {RepeatableLogRecorder_meta_received(
                     Value(recorder).log_archive_file, url, response)} :
           Recorded("meta_received", r, response)

WfsSearchResultFeatures(query, features) ==
    /\ Recording
    /\ \E r \in {RepeatableLogRecorder_wfs_search_result_features(
                     Value(recorder).log_archive_file, query, features)} :
           Recorded("wfs_search_result_features", r, tostring_utf8(features))

XmlRetrieved(pkey_object, xml) ==
    /\ Recording
    /\ \E r \in {RepeatableLogRecorder_xml_retrieved(
                     Value(recorder).log_archive_file, pkey_object, xml)} :
           Recorded("xml_retrieved", r, xml)

RecorderInjectMetaResponse(url) ==
    /\ Recording
    /\ \E r \in {RepeatableLogRecorder_inject_meta_response(
                     Value(recorder).log_archive_file, url)} :
           Injected("recorder.inject_meta_response", r)

RecorderInjectWfsResultFeatures(query) ==
    /\ Recording
    /\ \E r \in {RepeatableLogRecorder_inject_wfs_result_features(
                     Value(recorder).log_archive_file, query)} :
           Injected("recorder.inject_wfs_result_features", r)

RecorderInjectXmlRetrieved(pkey_object) ==
    /\ Recording
    /\ \E r \in {RepeatableLogRecorder_inject_xml_retrieved(
                     Value(recorder).log_archive_file, pkey_object)} :
           Injected("recorder.inject_xml_retrieved", r)

\* the clock readings at which a process can reach its exit functions
ExitTimes == {1}

\* the main flow ends: it returned ("normal") or raised ("uncaught error"); either
\* way the interpreter goes on to its exit functions, and no hook is called again
MainFlowEnds(how) ==
    /\ Running
    /\ interpreter' = [interpreter EXCEPT !.phase = "teardown", !.ended = how]
    /\ ret' = NoHookCall
    /\ UNCHANGED <<recorder, replayer, first_event, first_decodable, status, threadvars,
                   searchvars>>

\* the exit function the interpreter runs next: the one registered last
NextExitFunction == interpreter.atexit[Len(interpreter.atexit)]

\* an exit function has run
ExitFunctionRan ==
    [interpreter EXCEPT !.atexit = SubSeq(@, 1, Len(@) - 1),
                        !.ran = Append(@, NextExitFunction)]

\* atexit runs RepeatableLogRecorder.pydov_exit
RecorderExit ==
    /\ interpreter.phase = "teardown" /\ interpreter.atexit # <<>>
    /\ NextExitFunction = "RepeatableLogRecorder.pydov_exit"
    /\ \E now \in ExitTimes :
           recorder' = Some(RepeatableLogRecorder_pydov_exit(Value(recorder), now))
    /\ interpreter' = ExitFunctionRan
    /\ ret' = [NoHookCall EXCEPT !.call = "pydov_exit"]
    /\ UNCHANGED <<replayer, first_event, first_decodable, status, threadvars, searchvars>>

\* atexit runs RepeatableLogReplayer.pydov_exit
ReplayerExit ==
    /\ interpreter.phase = "teardown" /\ interpreter.atexit # <<>>
    /\ NextExitFunction = "RepeatableLogReplayer.pydov_exit"
    /\ replayer' = Some(RepeatableLogReplayer_pydov_exit(Value(replayer)))
    /\ interpreter' = ExitFunctionRan
    /\ ret' = [NoHookCall EXCEPT !.call = "pydov_exit"]
    /\ UNCHANGED <<recorder, first_event, first_decodable, status, threadvars, searchvars>>

\* every registered exit function has run: the process is gone
ProcessExits ==
    /\ interpreter.phase = "teardown" /\ interpreter.atexit = <<>>
    /\ interpreter' = [interpreter EXCEPT !.phase = "exited"]
    /\ UNCHANGED <<recorder, replayer, ret, first_event, first_decodable, status, threadvars,
                   searchvars>>

\* a new process: RepeatableLogReplayer.__init__ (lines 366-374) on the archive of
\* the record session
NewReplayer ==
    /\ ~IsNone(recorder) /\ Value(recorder).closed
    /\ interpreter.phase = "exited"
    /\ IsNone(replayer)
    /\ replayer' = Some(RepeatableLogReplayer_init(Value(recorder).log_archive_file))
    /\ interpreter' = atexit_register(NewInterpreter, "RepeatableLogReplayer.pydov_exit")
    /\ ret' = [NoHookCall EXCEPT !.call = "__init__"]
    /\ UNCHANGED <<recorder, first_event, first_decodable, status, threadvars, searchvars>>

\* what an inject_* call of the replayer that returned r leaves behind
Replayed(call, r) ==
    /\ Running
    /\ replayer' = Some([Value(replayer) EXCEPT !.log_archive_file = r.file])
    /\ ret' = [call |-> call, log_path |-> r.log_path, value |-> r.value, exc |-> r.exc]
    /\ UNCHANGED <<recorder, first_event, first_decodable, status, interpreter, threadvars,
                   searchvars>>

\* an event reaches the replayer, which inherits it from AbstractHook
ReplayerEvent(method, payload) ==
    /\ ~IsNone(replayer)
    /\ Running
    /\ replayer' = Some(AbstractHook_event(Value(replayer), method, payload))
    /\ ret' = [NoHookCall EXCEPT !.call = "replayer." \o method]
    /\ UNCHANGED <<recorder, first_event, first_decodable, status, interpreter, threadvars,
                   searchvars>>

ReplayerInjectMetaResponse(url) ==
    /\ ~IsNone(replayer)
    /\ \E r \in {RepeatableLogReplayer_inject_meta_response(
                     Value(replayer).log_archive_file, url)} :
           Replayed("inject_meta_response", r)

ReplayerInjectWfsResultFeatures(query) ==
    /\ ~IsNone(replayer)
    /\ \E r \in {RepeatableLogReplayer_inject_wfs_result_features(
                     Value(replayer).log_archive_file, query)} :
           Replayed("inject_wfs_result_features", r)

ReplayerInjectXmlRetrieved(pkey_object) ==
    /\ ~IsNone(replayer)
    /\ \E r \in {RepeatableLogReplayer_inject_xml_retrieved(
                     Value(replayer).log_archive_file, pkey_object)} :
           Replayed("inject_xml_retrieved", r)

DoMetaReceived == \E url \in Urls, response \in Responses : MetaReceived(url, response)
DoWfsSearchResultFeatures ==
    \E query \in HookQueries, features \in FeatureTrees :
        WfsSearchResultFeatures(query, features)
DoXmlRetrieved == \E pkey_object \in PkeyObjects, xml \in Responses : XmlRetrieved(pkey_object, xml)
DoRecorderInject ==
    \/ \E url \in Urls : RecorderInjectMetaResponse(url)
    \/ \E query \in HookQueries : RecorderInjectWfsResultFeatures(query)
    \/ \E pkey_object \in PkeyObjects : RecorderInjectXmlRetrieved(pkey_object)
DoReplayerInject ==
    \/ \E url \in Urls : ReplayerInjectMetaResponse(url)
    \/ \E query \in HookQueries : ReplayerInjectWfsResultFeatures(query)
    \/ \E pkey_object \in PkeyObjects : ReplayerInjectXmlRetrieved(pkey_object)

DoReplayerEvent ==
    \E method \in LifecycleMethods, payload \in {<<97>>} : ReplayerEvent(method, payload)

DoMainFlowEnds == \E how \in {"normal", "uncaught error"} : MainFlowEnds(how)

NextLog ==
    \/ DoMetaReceived
    \/ DoWfsSearchResultFeatures
    \/ DoXmlRetrieved
    \/ DoRecorderInject
    \/ DoMainFlowEnds
    \/ RecorderExit
    \/ ProcessExits
    \/ NewReplayer
    \/ DoReplayerInject
    \/ DoReplayerEvent
    \/ ReplayerExit

SpecLog == InitLog /\ [][NextLog]_vars

----------------------------------------------------------------------------
(* Threads in the hook methods: a method is a call, the acquire of self.lock when
   its body is `with self.lock:`, the namelist() check, the write or the read that
   follows it, and the release of the lock; each is one step of the thread. The
   outcome of a call goes to its thread; ret and the histories belong to the
   sessions of one main flow and are not kept here. *)

\* the request every thread makes: the URL, the permanent key and the query "b"
ThreadKey == <<98>>
ThreadQuery == [tag |-> <<113>>, text |-> <<98>>]

ThreadLogPath(method) ==
    log_path_of(MethodNamespace(method),
        md5(encode(IF MethodNamespace(method) = "wfs"
                   THEN tostring_unicode(ThreadQuery) ELSE ThreadKey)))

\* the payloads of the events: one metadata body, one GetFeature response, and as
\* XML documents b"a", b"b" and a byte no UTF-8 text holds
ThreadPayloads(method) ==
    CASE MethodNamespace(method) = "meta" -> {<<97>>}
      [] MethodNamespace(method) = "wfs" ->
            {tostring_utf8([tag |-> <<102>>, text |-> <<97>>])}
      [] MethodNamespace(method) = "xml" -> {<<97>>, <<98>>, <<255>>}

\* the calls a thread can make
ThreadCalls ==
    {[hook |-> "recorder", method |-> method, log_path |-> ThreadLogPath(method),
      payload |-> payload] :
        method \in EventMethods, payload \in UNION {ThreadPayloads(m) : m \in EventMethods}}
    \cup
    {[hook |-> hook, method |-> method, log_path |-> ThreadLogPath(method),
      payload |-> <<>>] :
        hook \in {"recorder", "replayer"}, method \in InjectMethods}

\* the archive a replay process is given: it holds the XML of the key, or nothing
ReplayArchive == writestr(<<>>, ThreadLogPath("xml_retrieved"), <<97>>)
ReplayArchives == {<<>>, ReplayArchive}

\* a process with a recorder, or a process with a replayer
InitThreads ==
    /\ remote \in {r \in SearchRemotes : r.contents = {}}
    /\ InitProcess
    /\ InitHistory
    /\ \/ /\ recorder = Some(RepeatableLogRecorder_init(<<>>, 0))
          /\ replayer = None
          /\ interpreter =
                 atexit_register(NewInterpreter, "RepeatableLogRecorder.pydov_exit")
       \/ /\ recorder = None
          /\ replayer \in {Some(RepeatableLogReplayer_init(f)) : f \in ReplayArchives}
          /\ interpreter =
                 atexit_register(NewInterpreter, "RepeatableLogReplayer.pydov_exit")

HookOpen(hook) ==
    IF hook = "recorder" THEN Recording
    ELSE ~IsNone(replayer) /\ ~Value(replayer).closed

HookFile(hook) ==
    IF hook = "recorder" THEN Value(recorder).log_archive_file
    ELSE Value(replayer).log_archive_file

\* thread t calls a method of a hook
ThreadCall(t, c) ==
    /\ Running
    /\ threads[t].pc = "idle"
    /\ HookOpen(c.hook)
    /\ c.payload \in (IF c.method \in EventMethods THEN ThreadPayloads(c.method) ELSE {<<>>})
    /\ threads' = [threads EXCEPT ![t] =
                      [hook |-> c.hook, method |-> c.method, log_path |-> c.log_path,
                       payload |-> c.payload,
                       pc |-> IF takes_lock(c.method) THEN "acquire" ELSE "namelist",
                       value |-> None, exc |-> NoExc]]
    /\ UNCHANGED <<lock, recorder, replayer, ret, first_event, first_decodable, status,
                   interpreter, searchvars>>

\* `with self.lock:` is entered: the thread waits until the lock is free
ThreadAcquire(t) ==
    /\ threads[t].pc = "acquire"
    /\ lock[threads[t].hook] = 0
    /\ lock' = [lock EXCEPT ![threads[t].hook] = t]
    /\ threads' = [threads EXCEPT ![t].pc = "namelist"]
    /\ UNCHANGED <<recorder, replayer, ret, first_event, first_decodable, status, interpreter,
                   searchvars>>

\* the body of the method is left with a value or an exception: a method under the
\* lock has the lock to release, any other has returned to its thread
ThreadLeaves(t, value, exc) ==
    IF takes_lock(threads[t].method)
    THEN threads' = [threads EXCEPT ![t].pc = "release", ![t].value = value,
                                    ![t].exc = exc]
    ELSE threads' = [threads EXCEPT ![t] = Idle]

\* the answer to a query for an entry that is missing
MissingEntry(hook, method, file) ==
    CASE hook = "recorder" -> Returned(file, ThreadLogPath(method), None)
      [] hook = "replayer" /\ method = "inject_meta_response" ->
            RepeatableLogReplayer_inject_meta_response(file, ThreadKey)
      [] hook = "replayer" /\ method = "inject_wfs_result_features" ->
            RepeatableLogReplayer_inject_wfs_result_features(file, ThreadQuery)
      [] hook = "replayer" /\ method = "inject_xml_retrieved" ->
            RepeatableLogReplayer_inject_xml_retrieved(file, ThreadKey)

\* `if log_path not in self.log_archive_file.namelist()`: the archive is read
ThreadNamelist(t) ==
    /\ threads[t].pc = "namelist"
    /\ \E found \in {Contains(namelist(HookFile(threads[t].hook)), threads[t].log_path)} :
          IF threads[t].method \in EventMethods
          THEN IF found THEN ThreadLeaves(t, None, NoExc)
               ELSE threads' = [threads EXCEPT ![t].pc = "writestr"]
          ELSE IF found
               THEN threads' = [threads EXCEPT ![t].pc = "read"]
               ELSE \E r \in {MissingEntry(threads[t].hook, threads[t].method,
                                           HookFile(threads[t].hook))} :
                        ThreadLeaves(t, r.value, r.exc)
    /\ UNCHANGED <<lock, recorder, replayer, ret, first_event, first_decodable, status,
                   interpreter, searchvars>>

\* self.log_archive_file.writestr(log_path, payload.decode('utf8'))
ThreadWritestr(t) ==
    /\ threads[t].pc = "writestr"
    /\ \E r \in {write_payload(Value(recorder).log_archive_file, threads[t].log_path,
                                threads[t].payload)} :
          /\ r.file # Value(recorder).log_archive_file =>
                 LogEntries(Value(recorder).log_archive_file) < MaxEntries
          /\ recorder' = Some([Value(recorder) EXCEPT !.log_archive_file = r.file])
          /\ ThreadLeaves(t, r.value, r.exc)
    /\ UNCHANGED <<lock, replayer, ret, first_event, first_decodable, status, interpreter,
                   searchvars>>

\* self.log_archive_file.open(log_path, 'r') and read().decode('utf8')
ThreadRead(t) ==
    /\ threads[t].pc = "read"
    /\ \E r \in {read_text(HookFile(threads[t].hook), threads[t].log_path)} :
          ThreadLeaves(t, r.value, r.exc)
    /\ UNCHANGED <<lock, recorder, replayer, ret, first_event, first_decodable, status,
                   interpreter, searchvars>>

\* the lock is released when the body returns; an exception leaves it held
ThreadRelease_on_return(t) ==
    /\ threads[t].pc = "release"
    /\ lock' = IF threads[t].exc = NoExc THEN [lock EXCEPT ![threads[t].hook] = 0]
               ELSE lock
    /\ threads' = [threads EXCEPT ![t] = Idle]
    /\ UNCHANGED <<recorder, replayer, ret, first_event, first_decodable, status, interpreter,
                   searchvars>>

\* the `with` block is left, by a return or by an exception: the lock is released
ThreadRelease(t) ==
    /\ threads[t].pc = "release"
    /\ lock' = [lock EXCEPT ![threads[t].hook] = 0]
    /\ threads' = [threads EXCEPT ![t] = Idle]
    /\ UNCHANGED <<recorder, replayer, ret, first_event, first_decodable, status, interpreter,
                   searchvars>>

DoThreadCall == \E t \in Threads, c \in ThreadCalls : ThreadCall(t, c)
DoThreadAcquire == \E t \in Threads : ThreadAcquire(t)
DoThreadNamelist == \E t \in Threads : ThreadNamelist(t)
DoThreadWritestr == \E t \in Threads : ThreadWritestr(t)
DoThreadRead == \E t \in Threads : ThreadRead(t)
DoThreadRelease == \E t \in Threads : ThreadRelease(t)

NextThreads ==
    \/ DoThreadCall
    \/ DoThreadAcquire
    \/ DoThreadNamelist
    \/ DoThreadWritestr
    \/ DoThreadRead
    \/ DoThreadRelease

SpecThreads == InitThreads /\ [][NextThreads]_vars

\* the worker threads of the parallel XML retrieval: they call xml_retrieved and
\* inject_xml_retrieved only, and so write at most the one xml entry of the key
DoXmlThreadCall ==
    \E t \in Threads, c \in {d \in ThreadCalls : takes_lock(d.method)} : ThreadCall(t, c)

NextXmlThreads ==
    \/ DoXmlThreadCall
    \/ DoThreadAcquire
    \/ DoThreadNamelist
    \/ DoThreadWritestr
    \/ DoThreadRead
    \/ DoThreadRelease

\* a thread that is in a method goes on with it, and a thread that waits for a
\* lock that is free again and again gets it; nothing makes a thread call a method
FairThreads ==
    \A t \in Threads :
        /\ SF_vars(ThreadAcquire(t))
        /\ WF_vars(ThreadNamelist(t))
        /\ WF_vars(ThreadWritestr(t))
        /\ WF_vars(ThreadRead(t))
        /\ WF_vars(ThreadRelease(t))

SpecXmlThreads == InitThreads /\ [][NextXmlThreads]_vars /\ FairThreads

----------------------------------------------------------------------------
(* SimpleStatusHook: its counters, its lock and what it wrote to standard output
   since the search began. The main thread calls wfs_search_init and
   wfs_search_result when a search starts, before the worker threads of that
   search report their documents; a worker is in xml_cache_hit or xml_downloaded:
   it takes the lock, and _write_progress writes, reads the counter, stores the
   counter, each one step, before the lock is released. `events` counts the
   events that arrived since the search began. *)

\* the events a search can bring
MaxEvents == 3

\* line 190: the progress characters of one line of output
LineWidth == 50

\* lines 162-172: SimpleStatusHook.__init__
SimpleStatusHook_init ==
    [result_count |-> 0, prog_counter |-> 0, lock |-> 0, written |-> <<>>, events |-> 0,
     called |-> "__init__"]

\* lines 213-225: the counters are reset; the output of the search starts
wfs_search_init(hook) ==
    [hook EXCEPT !.result_count = 0, !.prog_counter = 0, !.written = <<>>, !.events = 0,
                 !.called = "wfs_search_init"]

\* lines 227-237
wfs_search_result(hook, number_of_results) ==
    [hook EXCEPT !.result_count = number_of_results, !.called = "wfs_search_result"]

\* no event runs under self.lock
status_takes_lock_never(method) == FALSE

\* lines 249, 262: the events whose body is `with self.lock:`
status_takes_lock(method) == method \in {"xml_cache_hit", "xml_downloaded"}

\* lines 250, 263: the character of the event
progress_char(method) == IF method = "xml_cache_hit" THEN "c" ELSE "."

\* lines 186-206: what _write_progress writes before it counts: the head of the
\* first line, or the end of a full line (with the time left, which the clock
\* decides) and the head of the next, and then the character
progress_text(hook, char) ==
    IF hook.prog_counter = 0 THEN <<"[000/n] ", char>>
    ELSE IF hook.prog_counter % LineWidth = 0 THEN <<"\n[k/n] ", char>>
    ELSE <<char>>

\* line 207, the store of `self.prog_counter += 1`, and lines 209-211
count_progress(hook, loaded) ==
    [hook EXCEPT !.prog_counter = loaded + 1,
                 !.written = IF loaded + 1 = hook.result_count THEN Append(@, "\n") ELSE @]

\* a process with a SimpleStatusHook
InitStatus ==
    /\ remote \in {r \in SearchRemotes : r.contents = {}}
    /\ InitProcess
    /\ recorder = None
    /\ replayer = None
    /\ interpreter = NewInterpreter
    /\ ret = NoHookCall
    /\ threads = [t \in Threads |-> Idle]
    /\ lock = [hook \in {"recorder", "replayer"} |-> 0]
    /\ first_event = EmptyDict
    /\ first_decodable = EmptyDict
    /\ status = Some(SimpleStatusHook_init)

StatusUnchanged ==
    UNCHANGED <<searchvars, recorder, replayer, ret, first_event, first_decodable,
                interpreter, lock>>

\* the workers of the search before are done
NoWorker == \A t \in Threads : threads[t].pc = "idle"

\* the main thread starts a search
StatusSearchInit ==
    /\ NoWorker
    /\ status' = Some(wfs_search_init(Value(status)))
    /\ UNCHANGED threads
    /\ StatusUnchanged

\* the main thread got the features of the search
StatusSearchResult(number_of_results) ==
    /\ NoWorker
    /\ Value(status).called = "wfs_search_init"
    /\ status' = Some(wfs_search_result(Value(status), number_of_results))
    /\ UNCHANGED threads
    /\ StatusUnchanged

\* thread t reports a document: xml_cache_hit or xml_downloaded
StatusEvent(t, method) ==
    /\ threads[t].pc = "idle"
    /\ Value(status).events < MaxEvents
    /\ status' = Some([Value(status) EXCEPT !.events = @ + 1, !.called = method])
    /\ threads' = [threads EXCEPT ![t] =
                      [hook |-> "status", method |-> method, loaded |-> 0,
                       pc |-> IF status_takes_lock(method) THEN "acquire" ELSE "write"]]
    /\ StatusUnchanged

\* `with self.lock:` is entered
StatusAcquire(t) ==
    /\ threads[t].pc = "acquire"
    /\ Value(status).lock = 0
    /\ status' = Some([Value(status) EXCEPT !.lock = t])
    /\ threads' = [threads EXCEPT ![t].pc = "write"]
    /\ StatusUnchanged

\* lines 186-206
StatusWrites(t) ==
    /\ threads[t].pc = "write"
    /\ status' = Some([Value(status) EXCEPT
           !.written = @ \o progress_text(Value(status), progress_char(threads[t].method))])
    /\ threads' = [threads EXCEPT ![t].pc = "load"]
    /\ StatusUnchanged

\* line 207: self.prog_counter is read
StatusLoads(t) ==
    /\ threads[t].pc = "load"
    /\ threads' = [threads EXCEPT ![t].pc = "store",
                                  ![t].loaded = Value(status).prog_counter]
    /\ UNCHANGED status
    /\ StatusUnchanged

\* lines 207-211: self.prog_counter is stored and compared with the result count
StatusStores(t) ==
    /\ threads[t].pc = "store"
    /\ status' = Some(count_progress(Value(status), threads[t].loaded))
    /\ threads' = [threads EXCEPT ![t] =
                      IF status_takes_lock(threads[t].method)
                      THEN [threads[t] EXCEPT !.pc = "release"]
                      ELSE Idle]
    /\ StatusUnchanged

\* the `with` block is left
StatusRelease(t) ==
    /\ threads[t].pc = "release"
    /\ status' = Some([Value(status) EXCEPT !.lock = 0])
    /\ threads' = [threads EXCEPT ![t] = Idle]
    /\ StatusUnchanged

DoStatusSearchResult == \E n \in 0..MaxEvents : StatusSearchResult(n)
DoStatusEvent ==
    \E t \in Threads, method \in {"xml_cache_hit", "xml_downloaded"} : StatusEvent(t, method)
DoStatusAcquire == \E t \in Threads : StatusAcquire(t)
DoStatusWrites == \E t \in Threads : StatusWrites(t)
DoStatusLoads == \E t \in Threads : StatusLoads(t)
DoStatusStores == \E t \in Threads : StatusStores(t)
DoStatusRelease == \E t \in Threads : StatusRelease(t)

NextStatus ==
    \/ StatusSearchInit
    \/ DoStatusSearchResult
    \/ DoStatusEvent
    \/ DoStatusAcquire
    \/ DoStatusWrites
    \/ DoStatusLoads
    \/ DoStatusStores
    \/ DoStatusRelease

SpecStatus == InitStatus /\ [][NextStatus]_vars

----------------------------------------------------------------------------
(* Callers in the lazy field initialisation: threads that validate a query on
   BoringSearch instances of one process. A caller goes through the statements of
   _pre_search_validation, _init_fields and _build_fields one step at a time: the
   test of self._fields, the loading of the class documents, the reset of
   self._wfs_fields with the filling of the name maps, each turn of the loop over
   the schema properties, the merge of the XML declarations with the assignment of
   self._fields, and the check of the query name. Its thread record holds the
   variables local to the call. *)

\* the names the callers validate: a wire-level name and an internal name
CallerNames == {"fiche", "gemeente"}

\* the services the callers resolve their fields from
CallerRemotes == {r \in SearchRemotes : "extra" \notin DOMAIN r.schema.properties}

InitCallers ==
    /\ remote \in CallerRemotes
    /\ InitProcess
    /\ InitNoHooks

\* the local variables of a caller at step pc
Caller(pc, i, name, keys, fields, exc) ==
    [pc |-> pc, instance |-> i, name |-> name, keys |-> keys, fields |-> fields,
     exc |-> exc]

At(t, pc) == threads[t].pc = pc

Goto(t, pc) == threads' = [threads EXCEPT ![t].pc = pc]

\* lines 288-289: thread t validates a query that names `name` on instance i
CallerStarts(t, i, name) ==
    /\ At(t, "idle")
    /\ threads' = [threads EXCEPT ![t] =
                      Caller("test", i, name, <<>>, EmptyDict, NoExc)]
    /\ UNCHANGED <<searchvars, recorder, replayer, ret, first_event, first_decodable, status,
                   interpreter, lock>>

\* line 505: `if self._fields is None`
CallerTests(t) ==
    /\ At(t, "test")
    /\ Goto(t, IF IsNone(self[threads[t].instance].fields) THEN "load" ELSE "validate")
    /\ UNCHANGED <<searchvars, recorder, replayer, ret, first_event, first_decodable, status,
                   interpreter, lock>>

\* lines 506-518: the class documents that are still None are requested
CallerLoads(t) ==
    /\ At(t, "load")
    /\ \E r \in {init_fc_featurecatalogue(init_md_metadata(init_wfs_schema(Call)))} :
          /\ \A d \in Documents : fetched[d] + Count(r.net, d) <= MaxFetches
          /\ cls' = r.cls
          /\ fetched' = [d \in Documents |-> fetched[d] + Count(r.net, d)]
          /\ threads' = [threads EXCEPT
                 ![t].pc = IF Raised(r) THEN "idle" ELSE "build",
                 ![t].exc = r.exc]
    /\ UNCHANGED <<remote, self, last, recorder, replayer, ret, first_event,
                   first_decodable, status, interpreter, lock>>

\* lines 199-210: fields = {}, self._wfs_fields = [], and both name maps get the
\* WFS declarations of the type
CallerResets(t) ==
    /\ At(t, "build")
    /\ \E maps \in {build_name_maps(Type_get_fields({"wfs"}),
                         [map_wfs_source_df |-> self[threads[t].instance].map_wfs_source_df,
                          map_df_wfs_source |-> self[threads[t].instance].map_df_wfs_source])} :
          self' = [self EXCEPT
                      ![threads[t].instance].wfs_fields = Some(<<>>),
                      ![threads[t].instance].map_wfs_source_df = maps.map_wfs_source_df,
                      ![threads[t].instance].map_df_wfs_source = maps.map_df_wfs_source]
    /\ threads' = [threads EXCEPT
           ![t].pc = "loop",
           ![t].keys = SchemaKeys(Value(cls.wfs_schema)),
           ![t].fields = EmptyDict]
    /\ UNCHANGED <<remote, cls, fetched, last, recorder, replayer, ret, first_event,
                   first_decodable, status, interpreter, lock>>

\* lines 212-234: one turn of the loop; the property is appended to the list
\* self._wfs_fields is at that moment
CallerAddsField(t) ==
    /\ At(t, "loop")
    /\ threads[t].keys # <<>>
    /\ \E acc \in {add_wfs_field(
                        [fields |-> threads[t].fields,
                         wfs_fields |-> Value(self[threads[t].instance].wfs_fields)],
                        Head(threads[t].keys), Value(cls.wfs_schema),
                        Value(cls.fc_featurecatalogue),
                        self[threads[t].instance].map_wfs_source_df)} :
          /\ self' = [self EXCEPT ![threads[t].instance].wfs_fields = Some(acc.wfs_fields)]
          /\ threads' = [threads EXCEPT ![t].keys = Tail(@), ![t].fields = acc.fields]
    /\ UNCHANGED <<remote, cls, fetched, last, recorder, replayer, ret, first_event,
                   first_decodable, status, interpreter, lock>>

\* lines 236-246 and 520: the XML declarations are merged into the local dict, which
\* is returned and assigned to self._fields
CallerAssigns(t) ==
    /\ At(t, "loop")
    /\ threads[t].keys = <<>>
    /\ self' = [self EXCEPT ![threads[t].instance].fields =
                    Some(build_xml_fields(Type_get_fields({"xml"}), threads[t].fields))]
    /\ Goto(t, "validate")
    /\ UNCHANGED <<remote, cls, fetched, last, recorder, replayer, ret, first_event,
                   first_decodable, status, interpreter, lock>>

\* lines 290-300: the name of the query is looked up in what the instance holds
CallerValidates(t) ==
    /\ At(t, "validate")
    /\ \E r \in {check_query_of(Call, self[threads[t].instance], <<threads[t].name>>)} :
          threads' = [threads EXCEPT ![t].pc = "idle", ![t].exc = r.exc]
    /\ UNCHANGED <<searchvars, recorder, replayer, ret, first_event, first_decodable, status,
                   interpreter, lock>>

DoCallerStarts ==
    \E t \in Threads, i \in Instances, name \in CallerNames : CallerStarts(t, i, name)
DoCallerTests == \E t \in Threads : CallerTests(t)
DoCallerLoads == \E t \in Threads : CallerLoads(t)
DoCallerResets == \E t \in Threads : CallerResets(t)
DoCallerAddsField == \E t \in Threads : CallerAddsField(t)
DoCallerAssigns == \E t \in Threads : CallerAssigns(t)
DoCallerValidates == \E t \in Threads : CallerValidates(t)

NextCallers ==
    \/ DoCallerStarts
    \/ DoCallerTests
    \/ DoCallerLoads
    \/ DoCallerResets
    \/ DoCallerAddsField
    \/ DoCallerAssigns
    \/ DoCallerValidates

SpecCallers == InitCallers /\ [][NextCallers]_vars

----------------------------------------------------------------------------
(* Properties of the search engine *)

Resolved(i) == ~IsNone(self[i].fields)

ValidationFailed ==
    /\ last.op = "search"
    /\ last.exc.type \in {"InvalidSearchParameterError", "InvalidFieldError"}

\* documents the lazy field initialisation may request
FieldDocuments == {"GetCapabilities", "schema", "metadata", "featurecatalogue"}

\* C1 as stated: whenever a search fails validation, no network call at all has been
\* attempted during that search, not even a schema, metadata or catalogue fetch.
C1_NoNetworkCallBeforeValidationFailure ==
    ValidationFailed => last.net = <<>>

\* C1, amended: whenever a search fails validation, no GetFeature request and no
\* namespace lookup has been attempted during that search; a search that fails with
\* InvalidSearchParameterError has made no network call at all, and one that fails
\* with InvalidFieldError has requested at most the documents of the lazy field
\* initialisation (capabilities, schema, metadata, feature catalogue).
C1_NoGetFeatureBeforeValidationFailure ==
    ValidationFailed =>
        /\ IsNone(last.sent)
        /\ ~Contains(last.net, "GetFeature")
        /\ ~Contains(last.net, "namespace")
        /\ last.exc.type = "InvalidSearchParameterError" => last.net = <<>>
        /\ last.exc.type = "InvalidFieldError" => SeqRange(last.net) \subseteq FieldDocuments

\* the first search of a process fails with InvalidFieldError after the documents
\* of the field initialisation were fetched
C1_Witness ==
    /\ ValidationFailed
    /\ last.exc.type = "InvalidFieldError"
    /\ Contains(last.net, "schema")
    /\ Contains(last.net, "featurecatalogue")

\* C2: a search with both location and query, or with neither, fails with
\* InvalidSearchParameterError, whatever return_fields is, and has resolved no field
\* and contacted no remote service by then; a search with exactly one of them never
\* fails with InvalidSearchParameterError.
C2_LocationXorQuery_State ==
    last.op = "search" =>
        IF IsNone(last.location) = IsNone(last.query)
        THEN last.exc.type = "InvalidSearchParameterError" /\ last.net = <<>>
        ELSE last.exc.type # "InvalidSearchParameterError"

C2_LocationXorQuery_Step ==
    last'.exc.type = "InvalidSearchParameterError" =>
        self' = self /\ cls' = cls /\ fetched' = fetched

C2_LocationXorQuery ==
    [](C2_LocationXorQuery_State) /\ [][C2_LocationXorQuery_Step]_vars

\* both are set, with return fields, and the search failed
C2_Witness ==
    /\ last.op = "search"
    /\ ~IsNone(last.location) /\ ~IsNone(last.query) /\ ~IsNone(last.return_fields)
    /\ last.exc.type = "InvalidSearchParameterError"

\* C3: after a GetFeature round trip the search raises FeatureOverflowError exactly
\* when the reported count is 10000; with any other count it returns the result.
C3_OverflowExactlyAtCap ==
    last.op = "search" =>
        /\ last.exc.type = "FeatureOverflowError" => ~IsNone(last.numberOfFeatures)
        /\ ~IsNone(last.numberOfFeatures) =>
              /\ ~IsNone(last.sent)
              /\ last.exc.type = "FeatureOverflowError"
                     <=> Value(last.numberOfFeatures) = 10000
              /\ Value(last.numberOfFeatures) # 10000 =>
                     /\ last.exc = NoExc
                     /\ last.tree = Some([numberOfFeatures |-> Value(last.numberOfFeatures)])
                     /\ ~IsNone(last.table)

\* a result that reports 10000 features raised the error
C3_Witness ==
    /\ last.op = "search"
    /\ last.numberOfFeatures = Some(10000)
    /\ last.exc.type = "FeatureOverflowError"

\* the properties both remote documents describe, and those only one describes
InBoth == DOMAIN remote.schema.properties \cap DOMAIN remote.catalogue.attributes
InOne == (DOMAIN remote.schema.properties \cup DOMAIN remote.catalogue.attributes) \ InBoth

\* the internal names of a wire-level property: the declared one, else its own
InternalNames(property) ==
    IF \E k \in 1..Len(BoringFields) :
           BoringFields[k].source = "wfs" /\ BoringFields[k].sourcefield = property
    THEN {BoringFields[k].name : k \in {j \in 1..Len(BoringFields) :
              BoringFields[j].source = "wfs" /\ BoringFields[j].sourcefield = property}}
    ELSE {property}

\* C7: every cost-1 descriptor of the resolved field set carries the definition of a
\* property that both the schema and the catalogue describe, under that property's
\* internal name; a property only one of them describes is not among the resolved
\* WFS properties, gives its definition to no descriptor, and raises no error.
C7_WfsFieldsInBoth ==
    /\ last.op = "get_fields" => last.exc = NoExc /\ Resolved(last.instance)
    /\ \A i \in Instances : Resolved(i) =>
          /\ \A n \in DOMAIN Value(self[i].fields) :
                Value(self[i].fields)[n].cost = 1 =>
                    \E q \in InBoth :
                        /\ n \in InternalNames(q)
                        /\ Value(self[i].fields)[n].name = n
                        /\ Value(self[i].fields)[n].definition
                               = remote.catalogue.attributes[q].definition
          /\ \A q \in InOne :
                /\ ~Contains(Value(self[i].wfs_fields), q)
                /\ \A n \in DOMAIN Value(self[i].fields) :
                      Value(self[i].fields)[n].cost = 1 =>
                          Value(self[i].fields)[n].definition # "definition of " \o q

\* fields were resolved from documents of which one describes "extra" alone while
\* both describe "fiche"
C7_Witness ==
    /\ \E i \in Instances : Resolved(i) /\ "pkey_boring" \in DOMAIN Value(self[i].fields)
    /\ "fiche" \in InBoth
    /\ "extra" \in InOne /\ "extra" \in DOMAIN remote.schema.properties
    /\ "boormethode" \in InOne /\ "boormethode" \in DOMAIN remote.catalogue.attributes

\* the XML declarations of Boring and of its subtype BoorMethode
XmlDeclarations ==
    {BoringFields[k] : k \in {j \in 1..Len(BoringFields) : BoringFields[j].source = "xml"}}
        \cup {BoorMethodeFields[k] : k \in 1..Len(BoorMethodeFields)}

\* C8: the cost-10 descriptors of the resolved field set are exactly the XML
\* declarations of the type and its subtypes, with name, type, definition and notnull
\* unchanged, each under its own name, whatever the schema and the catalogue hold.
C8_XmlFieldsVerbatim ==
    \A i \in Instances : Resolved(i) =>
        /\ {Value(self[i].fields)[n] :
               n \in {m \in DOMAIN Value(self[i].fields) :
                         Value(self[i].fields)[m].cost = 10}}
             = {[name |-> f.name, type |-> f.type, definition |-> f.definition,
                 notnull |-> f.notnull, cost |-> 10] : f \in XmlDeclarations}
        /\ \A f \in XmlDeclarations :
              /\ f.name \in DOMAIN Value(self[i].fields)
              /\ Value(self[i].fields)[f.name].name = f.name
              /\ Value(self[i].fields)[f.name].cost = 10

\* fields were resolved although schema and catalogue both describe a property named
\* like the XML field "boormethode"
C8_Witness ==
    /\ \E i \in Instances : Resolved(i)
    /\ "boormethode" \in InBoth

\* C9: in both directions the name maps undo each other: an internal name translated
\* to its wire-level name and back is itself, and so is a wire-level name.
C9_NameMapRoundTrip ==
    \A i \in Instances :
        /\ \A n \in DOMAIN self[i].map_df_wfs_source :
              /\ self[i].map_df_wfs_source[n] \in DOMAIN self[i].map_wfs_source_df
              /\ self[i].map_wfs_source_df[self[i].map_df_wfs_source[n]] = n
        /\ \A w \in DOMAIN self[i].map_wfs_source_df :
              /\ self[i].map_wfs_source_df[w] \in DOMAIN self[i].map_df_wfs_source
              /\ self[i].map_df_wfs_source[self[i].map_wfs_source_df[w]] = w

\* the maps are built and translate "pkey_boring" to another name, "fiche"
C9_Witness ==
    \E i \in Instances :
        /\ "pkey_boring" \in DOMAIN self[i].map_df_wfs_source
        /\ self[i].map_df_wfs_source["pkey_boring"] = "fiche"
        /\ "fiche" \in DOMAIN self[i].map_wfs_source_df
        /\ self[i].map_wfs_source_df["Z_mTAW"] = "start_boring_mtaw"
        /\ Resolved(i)

\* C10: once some instance has resolved its fields, no later call on any instance
\* requests the schema, the metadata or the feature catalogue, and the field set of a
\* resolved instance never changes; each of the three documents is requested at most
\* once in the process.
C10_FetchedOnce_State ==
    \A d \in {"schema", "metadata", "featurecatalogue"} : fetched[d] <= 1

C10_FetchedOnce_Step ==
    (\E j \in Instances : Resolved(j)) =>
        /\ \A i \in Instances : Resolved(i) => self'[i].fields = self[i].fields
        /\ \A d \in {"schema", "metadata", "featurecatalogue"} :
              ~Contains(last'.net, d) /\ fetched'[d] = fetched[d]

C10_FetchedOnce ==
    [](C10_FetchedOnce_State) /\ [][C10_FetchedOnce_Step]_vars

\* every instance has resolved its fields, the last by a call that requested nothing
C10_Witness ==
    /\ \A i \in Instances : Resolved(i)
    /\ last.op \in {"get_fields", "search"}
    /\ last.net = <<>>
    /\ \A d \in {"schema", "metadata", "featurecatalogue"} : fetched[d] = 1

----------------------------------------------------------------------------
(* Properties of the record / replay hooks *)

ReplayerInjects == {"inject_meta_response", "inject_wfs_result_features",
                    "inject_xml_retrieved"}
RecorderEvents == {"meta_received", "wfs_search_result_features", "xml_retrieved"}

\* the entries called name
EntriesNamed(file, name) == {k \in 1..Len(file) : file[k].name = name}

\* the namespace and the digest of an entry name: "meta/<digest>.log"
NamespaceOf(log_path) ==
    CHOOSE namespace \in {"meta", "wfs", "xml"} :
        \E k \in 1..Len(Digests) : log_path = log_path_of(namespace, Digests[k])
DigestOf(log_path) ==
    CHOOSE d \in SeqRange(Digests) :
        \E namespace \in {"meta", "wfs", "xml"} : log_path = log_path_of(namespace, d)

\* C4: in replay mode an inject_meta_response, inject_wfs_result_features or
\* inject_xml_retrieved call whose computed key has no entry in its namespace fails
\* with LogReplayError, which names the key's digest; whether the key is present or
\* absent, the call never returns None.
C4_ReplayNeverAnswersNone ==
    (ret.call \in ReplayerInjects /\ ~IsNone(replayer)) =>
        /\ ret.log_path \in LogPaths
        /\ ret.call = "inject_meta_response" <=> NamespaceOf(ret.log_path) = "meta"
        /\ ret.call = "inject_wfs_result_features" <=> NamespaceOf(ret.log_path) = "wfs"
        /\ ret.call = "inject_xml_retrieved" <=> NamespaceOf(ret.log_path) = "xml"
        /\ EntriesNamed(Value(replayer).log_archive_file, ret.log_path) = {} =>
              /\ ret.exc.type = "LogReplayError"
              /\ ret.exc.name = DigestOf(ret.log_path)
        /\ ~(ret.exc = NoExc /\ IsNone(ret.value))

\* a replay call failed for a key that has no entry although the other key of its
\* namespace has one
C4_Witness ==
    /\ ~IsNone(replayer)
    /\ ret.call = "inject_meta_response"
    /\ ret.exc.type = "LogReplayError"
    /\ EntriesNamed(Value(replayer).log_archive_file, ret.log_path) = {}
    /\ \E k \in 1..Len(Value(replayer).log_archive_file) :
          /\ Value(replayer).log_archive_file[k].name \in LogPaths
          /\ NamespaceOf(Value(replayer).log_archive_file[k].name) = "meta"

\* C5 as stated: in a record session each namespace of the log holds at most one
\* entry per key, and that entry's payload is the payload of the first event that
\* carried the key.
C5_FirstEventWins ==
    ~IsNone(recorder) =>
        \A log_path \in LogPaths :
            /\ Cardinality(EntriesNamed(Value(recorder).log_archive_file, log_path)) <= 1
            /\ \A k \in EntriesNamed(Value(recorder).log_archive_file, log_path) :
                  /\ log_path \in DOMAIN first_event
                  /\ Value(recorder).log_archive_file[k].data = first_event[log_path]

\* C5, amended: in a record session each namespace of the log holds at most one entry
\* per key, and that entry's payload is the payload of the first event that carried
\* the key with a payload that is valid UTF-8; a key for which no such event has been
\* seen has no entry.
C5_FirstDecodableWins_State ==
    ~IsNone(recorder) =>
        \A log_path \in LogPaths :
            /\ Cardinality(EntriesNamed(Value(recorder).log_archive_file, log_path)) <= 1
            /\ EntriesNamed(Value(recorder).log_archive_file, log_path) # {}
                   <=> log_path \in DOMAIN first_decodable
            /\ \A k \in EntriesNamed(Value(recorder).log_archive_file, log_path) :
                  Value(recorder).log_archive_file[k].data = first_decodable[log_path]

\* C5, amended, the steps: an event whose key has an entry is skipped and changes
\* nothing, and so does an event that fails with UnicodeDecodeError because its
\* payload is not valid UTF-8; no event changes or moves an entry that is written.
C5_FirstDecodableWins_Step ==
    ret'.call \in RecorderEvents =>
        /\ ret'.exc.type \in {"", "UnicodeDecodeError"}
        /\ (EntriesNamed(Value(recorder).log_archive_file, ret'.log_path) # {}
              \/ ret'.exc.type = "UnicodeDecodeError")
               => recorder' = recorder
        /\ SubSeq(Value(recorder').log_archive_file, 1,
                  Len(Value(recorder).log_archive_file))
               = Value(recorder).log_archive_file

C5_FirstDecodableWins ==
    [](C5_FirstDecodableWins_State) /\ [][C5_FirstDecodableWins_Step]_vars

\* an event was skipped: its key has an entry, which holds another payload than the
\* one the event carried first under that key
C5_Witness ==
    /\ Recording
    /\ ret.call \in RecorderEvents
    /\ ret.exc = NoExc
    /\ \E k \in EntriesNamed(Value(recorder).log_archive_file, ret.log_path) :
          /\ k < Len(Value(recorder).log_archive_file)
          /\ Value(recorder).log_archive_file[k].data = first_decodable[ret.log_path]
          /\ Value(recorder).log_archive_file[k].data = <<195, 169>>

\* C6: replaying a key that was written during the record session returns text whose
\* UTF-8 bytes are the payload recorded for the key; for wfs that payload is the
\* serialised feature tree.  Replaying a key that was not written fails with
\* LogReplayError.
C6_RecordReplayRoundTrip ==
    (ret.call \in ReplayerInjects /\ ~IsNone(replayer)) =>
        IF ret.log_path \in DOMAIN first_decodable
        THEN /\ ret.exc = NoExc
             /\ ~IsNone(ret.value)
             /\ encode(Value(ret.value)) = first_decodable[ret.log_path]
             /\ Value(ret.value) = decode(first_decodable[ret.log_path])
        ELSE /\ ret.exc.type = "LogReplayError"
             /\ IsNone(ret.value)

\* the replay of a wfs key returned the declaration and the tree <f>é</f>
C6_Witness ==
    /\ ~IsNone(replayer)
    /\ ret.call = "inject_wfs_result_features"
    /\ ret.value = Some(XmlDeclaration \o <<60, 102, 62, 233, 60, 47, 102, 62>>)
    /\ \E log_path \in LogPaths \ DOMAIN first_decodable :
          NamespaceOf(log_path) = "meta" /\ log_path \in DOMAIN first_event

----------------------------------------------------------------------------
(* Properties of the validation and of the request *)

\* the query of the last call references only names the instance accepts
QueryAccepted ==
    \/ IsNone(last.query)
    \/ \A name \in SeqRange(PropertyNames(Value(last.query))) :
           \/ name \in DOMAIN self[last.instance].map_df_wfs_source
           \/ Contains(Value(self[last.instance].wfs_fields), name)

\* the last call is a search that got as far as the check of its return fields
ReturnFieldsChecked ==
    /\ last.op = "search"
    /\ IsNone(last.location) # IsNone(last.query)
    /\ Resolved(last.instance)
    /\ QueryAccepted
    /\ ~IsNone(last.return_fields)

\* the positions of the requested return fields that are not resolved
UnresolvedReturnFields ==
    {k \in 1..Len(Value(last.return_fields)) :
        Value(last.return_fields)[k] \notin DOMAIN Value(self[last.instance].fields)}

\* the internal names the NameMap gives the wire-level name rf
InternalNamesOf(rf) ==
    {n \in DOMAIN self[last.instance].map_df_wfs_source :
        self[last.instance].map_df_wfs_source[n] = rf}

\* C11: a search whose return fields hold a name that is not in the resolved field
\* set raises InvalidFieldError for the first such name and sends no request; when
\* the name is the wire-level source name of a NameMap field the message suggests
\* the internal name of that field, otherwise it reports an unknown return field.
C11_UnknownReturnField ==
    ReturnFieldsChecked =>
        /\ UnresolvedReturnFields # {} =>
              /\ last.exc.type = "InvalidFieldError"
              /\ IsNone(last.sent)
              /\ \E rf \in {Value(last.return_fields)[FirstIndex(UnresolvedReturnFields)]} :
                    IF InternalNamesOf(rf) # {}
                    THEN /\ last.exc.msg = "Unkown return field. Did you mean"
                         /\ last.exc.name \in InternalNamesOf(rf)
                         /\ last.exc.name # rf
                    ELSE /\ last.exc.msg = "Unknown return field"
                         /\ last.exc.name = rf
        /\ UnresolvedReturnFields = {} =>
              last.exc.msg \notin {"Unkown return field. Did you mean",
                                   "Unknown return field"}

\* the wire-level name "fiche" was requested and "pkey_boring" was suggested
C11_Witness ==
    /\ ReturnFieldsChecked
    /\ last.return_fields = Some(<<"fiche">>)
    /\ last.exc.msg = "Unkown return field. Did you mean"
    /\ last.exc.name = "pkey_boring"

\* the names the type and its subtypes declare
DeclaredNames ==
    {BoringFields[k].name : k \in 1..Len(BoringFields)}
        \cup {BoorMethodeFields[k].name : k \in 1..Len(BoorMethodeFields)}

\* the positions of the requested return fields the type does not declare
UndeclaredReturnFields ==
    {k \in 1..Len(Value(last.return_fields)) :
        Value(last.return_fields)[k] \notin DeclaredNames}

\* C12: a search whose return fields are all resolved but hold a name the type does
\* not declare raises InvalidFieldError for the first such name; a search with
\* return fields sends its request only when every requested name is both resolved
\* and declared by the type.
C12_UndeclaredReturnField ==
    /\ ReturnFieldsChecked /\ UnresolvedReturnFields = {} =>
          IF UndeclaredReturnFields # {}
          THEN /\ last.exc.type = "InvalidFieldError"
               /\ last.exc.msg = "Field cannot be used as a return field"
               /\ last.exc.name =
                      Value(last.return_fields)[FirstIndex(UndeclaredReturnFields)]
               /\ IsNone(last.sent)
          ELSE last.exc.type # "InvalidFieldError" /\ ~IsNone(last.sent)
    /\ last.op = "search" /\ ~IsNone(last.sent) /\ ~IsNone(last.return_fields) =>
          \A rf \in SeqRange(Value(last.return_fields)) :
              /\ rf \in DOMAIN Value(self[last.instance].fields)
              /\ rf \in DeclaredNames

\* the service publishes "extra", which the type does not declare
C12_Witness ==
    /\ ReturnFieldsChecked
    /\ last.return_fields = Some(<<"extra">>)
    /\ "extra" \in DOMAIN Value(self[last.instance].fields)
    /\ last.exc.msg = "Field cannot be used as a return field"

\* the last call is a search that got as far as the check of its query
QueryChecked ==
    /\ last.op = "search"
    /\ IsNone(last.location) /\ ~IsNone(last.query)
    /\ Resolved(last.instance)

\* the names of the XML declarations of the type: the return-only fields
XmlNames ==
    {Type_get_fields({"xml"})[k].name : k \in 1..Len(Type_get_fields({"xml"}))}

\* the positions of the names of the query that are neither an internal name of the
\* NameMap nor a resolved wire-level WFS field
RejectedQueryNames ==
    {k \in 1..Len(PropertyNames(Value(last.query))) :
        /\ PropertyNames(Value(last.query))[k]
               \notin DOMAIN self[last.instance].map_df_wfs_source
        /\ PropertyNames(Value(last.query))[k]
               \notin SeqRange(Value(self[last.instance].wfs_fields))}

\* C13: a search with a query passes the query check exactly when every name the
\* filter references is an internal name of the NameMap or a wire-level WFS field;
\* otherwise it raises InvalidFieldError for the first other name and sends no
\* request, with the "cannot use in query" message when the name is a return-only
\* (XML) field and the "unknown" message otherwise.
C13_QueryNames ==
    QueryChecked =>
        IF RejectedQueryNames = {}
        THEN last.exc.msg \notin {"Cannot use return field in query.",
                                  "Unknown query parameter"}
        ELSE /\ last.exc.type = "InvalidFieldError"
             /\ IsNone(last.sent)
             /\ \E name \in {PropertyNames(Value(last.query))
                                  [FirstIndex(RejectedQueryNames)]} :
                   /\ last.exc.name = name
                   /\ last.exc.msg = IF name \in XmlNames
                                     THEN "Cannot use return field in query."
                                     ELSE "Unknown query parameter"

\* "boormethode" is only an XML field of this service and the query names it
C13_Witness ==
    /\ QueryChecked
    /\ last.exc.msg = "Cannot use return field in query."
    /\ last.exc.name = "boormethode"
    /\ "boormethode" \notin SeqRange(Value(self[last.instance].wfs_fields))

\* the last call is a search with return fields that sent its GetFeature request
SentWithReturnFields ==
    /\ last.op = "search"
    /\ ~IsNone(last.sent)
    /\ ~IsNone(last.return_fields)

\* the source paths and the names of the fields only the XML documents hold
XmlOnly ==
    {Type_get_fields({"xml"})[k].sourcefield : k \in 1..Len(Type_get_fields({"xml"}))}
        \cup (XmlNames \ SeqRange(Value(self[last.instance].wfs_fields)))

\* C14: with return fields, the property list of the GetFeature request holds the
\* source field of every NameMap field whose name starts with "pkey", requested or
\* not, and the source field of every requested NameMap field, each once, and
\* nothing else: no field that only the XML documents hold.
C14_PropertyList ==
    SentWithReturnFields =>
        /\ SeqRange(Value(last.sent).propertyname) =
               {self[last.instance].map_df_wfs_source[n] :
                   n \in {m \in DOMAIN self[last.instance].map_df_wfs_source :
                             IsPkey(m) \/ m \in SeqRange(Value(last.return_fields))}}
        /\ Len(Value(last.sent).propertyname) =
               Cardinality(SeqRange(Value(last.sent).propertyname))
        /\ SeqRange(Value(last.sent).propertyname) \cap XmlOnly = {}

\* "gemeente" was requested twice next to an XML field, the key was not requested
C14_Witness ==
    /\ SentWithReturnFields
    /\ last.return_fields = Some(<<"gemeente", "mv_mtaw", "gemeente">>)
    /\ SeqRange(Value(last.sent).propertyname) = {"fiche", "gemeente"}
    /\ Len(Value(last.sent).propertyname) = 2

\* the last call is a search with a query that sent its GetFeature request
SentWithQuery ==
    /\ last.op = "search"
    /\ ~IsNone(last.sent)
    /\ ~IsNone(last.query)

\* the query of the last call with every reference to an internal name of the
\* NameMap replaced by the wire-level name, and nothing else changed
WireLevelQuery ==
    [k \in 1..Len(Value(last.query)) |->
        IF /\ Value(last.query)[k].tag = "PropertyName"
           /\ Value(last.query)[k].text \in DOMAIN self[last.instance].map_df_wfs_source
        THEN [tag |-> "PropertyName",
              text |-> self[last.instance].map_df_wfs_source[Value(last.query)[k].text]]
        ELSE Value(last.query)[k]]

\* C15: the filter of the request is the serialised query in which every field
\* reference that is an internal name of the NameMap is replaced by its wire-level
\* source name; every other reference and every element that is not a field
\* reference is as the caller gave it, so a query in wire-level names is sent
\* unchanged.
C15_Translation ==
    SentWithQuery =>
        /\ Value(last.sent).filter = Some(tostring(WireLevelQuery))
        /\ (\A name \in SeqRange(PropertyNames(Value(last.query))) :
                name \notin DOMAIN self[last.instance].map_df_wfs_source)
              => Value(last.sent).filter = Some(tostring(Value(last.query)))

\* the reference pkey_boring became fiche, the literal pkey_boring stayed
C15_Witness ==
    /\ SentWithQuery
    /\ last.query = Some(PropertyIsEqualTo("pkey_boring", "pkey_boring"))
    /\ Value(last.sent).filter = Some(tostring(PropertyIsEqualTo("fiche", "pkey_boring")))

----------------------------------------------------------------------------
(* Properties of the process teardown *)

\* the exit function of the hook the running process created
ExitFunctionOfProcess ==
    IF IsNone(replayer) THEN "RepeatableLogRecorder.pydov_exit"
    ELSE "RepeatableLogReplayer.pydov_exit"

\* the archive of the recorder ends with the one metadata record, which holds the
\* version, start_run, end_run and ran_for, and is closed
RecorderFinalized ==
    /\ Value(recorder).closed
    /\ DOMAIN Value(recorder).metadata = {"pydov_version", "start_run", "end_run", "ran_for"}
    /\ Cardinality(EntriesNamed(Value(recorder).log_archive_file, "metadata.json")) = 1
    /\ \E file \in {Value(recorder).log_archive_file} :
          /\ file[Len(file)].name = "metadata.json"
          /\ file[Len(file)].data =
                 encode(json_dumps(Value(recorder).metadata, MetadataOrder))

\* no metadata record is written and the archive is open
RecorderNotFinalized ==
    /\ ~Value(recorder).closed
    /\ EntriesNamed(Value(recorder).log_archive_file, "metadata.json") = {}

\* C16: the finalization of a hook runs exactly once, at the teardown of the
\* process that created it, whether the main flow returned or raised: while the
\* main flow runs the archive is open and holds no metadata record; when the
\* process has exited pydov_exit has run once, the archive of a recorder ends with
\* one metadata record (pydov_version, start_run, end_run, ran_for) and is closed,
\* and the archive of a replayer is closed.
C16_FinalizedOnce ==
    /\ \A f \in SeqRange(interpreter.ran) : Count(interpreter.ran, f) = 1
    /\ Running /\ ~IsNone(recorder) =>
          /\ interpreter.ran = <<>>
          /\ IF IsNone(replayer) THEN RecorderNotFinalized
             ELSE ~Value(replayer).closed
    /\ interpreter.phase = "exited" /\ ~IsNone(recorder) =>
          /\ interpreter.ended \in {"normal", "uncaught error"}
          /\ interpreter.ran = <<ExitFunctionOfProcess>>
          /\ RecorderFinalized
          /\ ~IsNone(replayer) => Value(replayer).closed

\* a record session whose main flow raised has exited with its archive finalized
C16_Witness ==
    /\ interpreter.phase = "exited"
    /\ interpreter.ended = "uncaught error"
    /\ ~IsNone(recorder) /\ IsNone(replayer)
    /\ RecorderFinalized
    /\ LogEntries(Value(recorder).log_archive_file) > 0

----------------------------------------------------------------------------
(* Properties of the threads *)

\* the next step of thread t reads or writes the archive of its hook
InArchiveAccess(t) == threads[t].pc \in {"namelist", "writestr", "read"}

\* C17 as stated: every thread that is about to read or write the archive of a
\* hook, in any of the six methods, holds the lock of that hook, so no two threads
\* are in an archive access of one hook at the same time.
C17_EveryAccessUnderLock ==
    /\ \A t \in Threads : InArchiveAccess(t) => lock[threads[t].hook] = t
    /\ \A t, u \in Threads :
          InArchiveAccess(t) /\ InArchiveAccess(u) /\ threads[t].hook = threads[u].hook
              => t = u

\* the methods whose archive access the lock guards
XmlMethods == {"xml_retrieved", "inject_xml_retrieved"}

\* C17: every thread that is about to read or write the archive in xml_retrieved or
\* inject_xml_retrieved holds the lock of the hook, so no two threads are in such
\* an access of one hook at the same time; a thread in meta_received,
\* inject_meta_response, wfs_search_result_features or inject_wfs_result_features
\* accesses the archive without ever holding the lock.
C17_XmlAccessUnderLock ==
    /\ \A t \in Threads :
          InArchiveAccess(t) /\ threads[t].method \in XmlMethods
              => lock[threads[t].hook] = t
    /\ \A t, u \in Threads :
          /\ InArchiveAccess(t) /\ threads[t].method \in XmlMethods
          /\ InArchiveAccess(u) /\ threads[u].method \in XmlMethods
          /\ threads[t].hook = threads[u].hook
          => t = u
    /\ \A t \in Threads :
          threads[t].pc # "idle" /\ threads[t].method \notin XmlMethods
              => lock[threads[t].hook] # t

\* one thread writes in xml_retrieved under the lock while the other writes in
\* meta_received without it
C17_Witness ==
    \E t, u \in Threads :
        /\ threads[t].method = "xml_retrieved" /\ threads[t].pc = "writestr"
        /\ lock["recorder"] = t
        /\ threads[u].method = "meta_received" /\ threads[u].pc = "writestr"

\* the entries the archive of the recorder holds for the permanent key
XmlEntries ==
    EntriesNamed(Value(recorder).log_archive_file, ThreadLogPath("xml_retrieved"))

\* what a complete xml_retrieved call stores: the text of its payload, encoded
StoredPayloads ==
    {encode(decode(payload)) :
        payload \in {q \in ThreadPayloads("xml_retrieved") : decodable(q)}}

\* thread t is at the end of a call of `method` on the recorder, under the lock
Leaving(t, method) ==
    /\ threads[t].hook = "recorder" /\ threads[t].method = method
    /\ threads[t].pc = "release"

\* C26: whatever the threads do, the recorder holds at most one xml entry for the
\* key, with the payload of one xml_retrieved call, whole; it holds one once an
\* xml_retrieved call with a payload that is text has run its body; and an
\* inject_xml_retrieved call returns None or the text of the stored entry.
C26_CheckAndWriteAtomic ==
    ~IsNone(recorder) =>
        /\ Cardinality(XmlEntries) <= 1
        /\ \A k \in XmlEntries : Value(recorder).log_archive_file[k].data \in StoredPayloads
        /\ \A t \in Threads :
              Leaving(t, "xml_retrieved") /\ decodable(threads[t].payload)
                  => /\ Cardinality(XmlEntries) = 1
                     /\ threads[t].exc = NoExc
        /\ \A t \in Threads :
              Leaving(t, "inject_xml_retrieved") =>
                  /\ threads[t].exc = NoExc
                  /\ \/ IsNone(threads[t].value)
                     \/ \E k \in XmlEntries :
                            encode(Value(threads[t].value))
                                = Value(recorder).log_archive_file[k].data

\* an xml_retrieved call found the entry another call with another payload had
\* written for the same key, while a thread waits for the lock to read it
C26_Witness ==
    \E t, u \in Threads :
        /\ Leaving(t, "xml_retrieved") /\ decodable(threads[t].payload)
        /\ \E k \in XmlEntries :
              Value(recorder).log_archive_file[k].data # threads[t].payload
        /\ threads[u].method = "inject_xml_retrieved" /\ threads[u].pc = "acquire"

Hooks == {"recorder", "replayer"}

\* thread t waits for the lock of its hook
Waiting(t) == threads[t].pc = "acquire"

----------------------------------------------------------------------------
(* Properties of the searches of a process with a registered hook *)

\* a registered hook has an entry for every GetFeature query
HookAnswersWfs ==
    \E k \in 1..Len(Registered) :
        \A d \in SeqRange(Digests) :
            Contains(namelist(HookFile(Registered[k])), log_path_of("wfs", d))

\* C18: a search asks the registered hooks for the WFS result in registration
\* order before it goes to the remote service: it sends the GetFeature request if
\* and only if no registered hook supplies an answer.
C18_RemoteCallIffNoHookAnswers ==
    last.op = "search" =>
        /\ HookAnswersWfs => "GetFeature" \notin SeqRange(last.net)
        /\ "GetFeature" \in SeqRange(last.net) =>
              /\ ~HookAnswersWfs
              /\ SelectSeq(last.events, LAMBDA e : e = "inject_wfs_result_features")
                     = [k \in 1..Len(Registered) |-> "inject_wfs_result_features"]

\* C19: a search that received its result has emitted wfs_search_init, then
\* wfs_search_query if and only if it had a filter, then, after the result,
\* wfs_search_result and wfs_search_result_features; a search that failed
\* validation has emitted no result event.
C19_LifecycleEvents ==
    last.op = "search" =>
        /\ ~IsNone(last.numberOfFeatures) =>
              SelectSeq(last.events, LAMBDA e : e # "inject_wfs_result_features")
                 = <<"wfs_search_init">>
                      \o (IF IsNone(last.query) THEN <<>> ELSE <<"wfs_search_query">>)
                      \o <<"wfs_search_result", "wfs_search_result_features">>
        /\ ValidationFailed =>
              \A e \in SeqRange(last.events) :
                  e \notin {"wfs_search_result", "wfs_search_result_features"}

----------------------------------------------------------------------------
(* Properties of the field declarations *)

\* the names of the declarations get_fields returns for the sources `source`
NamesBySource(source) ==
    {Type_get_fields(source)[k].name : k \in 1..Len(Type_get_fields(source))}

\* C20: get_fields filtered by source returns only declarations of that source,
\* every declaration under one of the two filters, so the WFS fields and the XML
\* fields of the type are disjoint; the field resolution, which asks for them by
\* source, puts only WFS declarations in the NameMap and gives the cost of an XML
\* field only to XML declarations.
C20_GetFieldsBySource ==
    /\ \A k \in 1..Len(Type_get_fields({"wfs"})) : Type_get_fields({"wfs"})[k].source = "wfs"
    /\ \A k \in 1..Len(Type_get_fields({"xml"})) : Type_get_fields({"xml"})[k].source = "xml"
    /\ NamesBySource({"wfs"}) \cap NamesBySource({"xml"}) = {}
    /\ NamesBySource({"wfs"}) \cup NamesBySource({"xml"}) = DeclaredNames
    /\ \A i \in Instances :
          Resolved(i) =>
              /\ DOMAIN self[i].map_df_wfs_source = NamesBySource({"wfs"})
              /\ \A n \in DOMAIN Value(self[i].fields) :
                    Value(self[i].fields)[n].cost = 10 <=> n \in NamesBySource({"xml"})

\* the fields are resolved: pkey_boring is in the NameMap, mv_mtaw is an XML field
C20_Witness ==
    /\ Resolved(1)
    /\ self[1].map_df_wfs_source["pkey_boring"] = "fiche"
    /\ "mv_mtaw" \in DOMAIN Value(self[1].fields)
    /\ Value(self[1].fields)["mv_mtaw"].cost = 10
    /\ "mv_mtaw" \notin DOMAIN self[1].map_df_wfs_source

----------------------------------------------------------------------------
(* Properties of the phases of a search *)

\* the steps a search can take from one phase to the next
Forward ==
    {<<"validating", "querying">>, <<"querying", "parsing">>, <<"parsing", "done">>,
     <<"validating", "error">>, <<"querying", "error">>}

InPhase(phase) == Contains(last.phases, phase)

\* C21: a search starts validating and every step it takes is forward, from
\* validating to querying to parsing to done, or from validating or querying to
\* error, after which it takes none; a search that failed has not parsed a feature
\* and returns no table; it sent GetFeature once if it was querying and never
\* otherwise; and it parsed features only after it had compared the count of the
\* response with the cap and found it different.
C21_ForwardOnly ==
    last.op = "search" =>
        /\ last.phases # <<>> /\ last.phases[1] = "validating"
        /\ \A k \in 1..(Len(last.phases) - 1) :
              <<last.phases[k], last.phases[k + 1]>> \in Forward
        /\ last.phases[Len(last.phases)] \in {"done", "error"}
        /\ InPhase("error") <=> last.exc.type # ""
        /\ InPhase("error") => ~InPhase("parsing") /\ IsNone(last.table)
        /\ InPhase("done") <=> ~IsNone(last.table)
        /\ Count(last.net, "GetFeature") = (IF InPhase("querying") THEN 1 ELSE 0)
        /\ InPhase("parsing") =>
              /\ ~IsNone(last.numberOfFeatures)
              /\ ~is_overflow(Value(last.numberOfFeatures))

\* a search was querying when the count of the response was the cap
C21_Witness ==
    /\ last.op = "search"
    /\ last.phases = <<"validating", "querying", "error">>
    /\ last.exc.type = "FeatureOverflowError"
    /\ Value(last.numberOfFeatures) = MaxFeatures

----------------------------------------------------------------------------
(* Properties of the resolved field set *)

\* the descriptors of the resolved field set of instance i that come from the
\* wire-level property q: the catalogue's definition of q is in no other
HasOwnDescriptor(i, q) ==
    \E n \in DOMAIN Value(self[i].fields) :
        /\ Value(self[i].fields)[n].name = n
        /\ Value(self[i].fields)[n].cost = 1
        /\ Value(self[i].fields)[n].definition = remote.catalogue.attributes[q].definition

\* C22: every property that both the schema and the catalogue describe has its own
\* descriptor with cost 1 in the resolved field set, whatever its internal name
\* coincides with.
C22_NoDescriptorLost ==
    \A i \in Instances : Resolved(i) => \A q \in InBoth : HasOwnDescriptor(i, q)

\* the names of the WFS descriptors of the resolved field set of instance i
ResolvedWfsNames(i) ==
    {n \in DOMAIN Value(self[i].fields) : Value(self[i].fields)[n].cost = 1}

\* the WFS declarations of the type whose wire-level property the schema or the
\* catalogue does not describe
DroppedDeclarations ==
    {f \in SeqRange(Type_get_fields({"wfs"})) : f.sourcefield \notin InBoth}

\* C23: after field resolution the NameMap is a bijection between the names of the
\* WFS descriptors of the resolved field set and their wire-level names, with no
\* entry for a declared WFS field whose property the schema or the catalogue lacks;
\* a query that names such a field is refused, and no request asks for its property.
C23_NameMapOfResolvedFields ==
    /\ \A i \in Instances : Resolved(i) =>
          /\ DOMAIN self[i].map_df_wfs_source = ResolvedWfsNames(i)
          /\ \A n \in DOMAIN self[i].map_df_wfs_source :
                /\ self[i].map_df_wfs_source[n] \in DOMAIN self[i].map_wfs_source_df
                /\ self[i].map_wfs_source_df[self[i].map_df_wfs_source[n]] = n
          /\ \A f \in DroppedDeclarations : f.name \notin DOMAIN self[i].map_df_wfs_source
    /\ QueryChecked =>
          ((\E f \in DroppedDeclarations :
                Contains(PropertyNames(Value(last.query)), f.name))
              => last.exc.type = "InvalidFieldError" /\ IsNone(last.sent))
    /\ last.op = "search" /\ Resolved(last.instance) /\ ~IsNone(last.sent) =>
          \A f \in DroppedDeclarations :
              ~Contains(Value(last.sent).propertyname, f.sourcefield)

\* the types a FieldDescriptor can have
FieldTypes == {"integer", "float", "string", "boolean", "date"}

\* C24: whatever types the schema declares, the type of every descriptor of the
\* resolved field set is integer, float, string, boolean or date.
C24_TypesOfTheResult ==
    \A i \in Instances : Resolved(i) =>
        \A n \in DOMAIN Value(self[i].fields) :
            Value(self[i].fields)[n].type \in FieldTypes

----------------------------------------------------------------------------
(* Properties of the callers in the lazy field initialisation *)

\* what one build by one caller leaves on an instance
SequentialBuild == Built(build_fields(NewInstance, remote.schema, remote.catalogue))

\* C25: a caller whose own initialisation has returned and that is validating finds
\* on its instance the field set, the name maps and the wire-level field list one
\* sequential build leaves there, whatever the other callers are doing.
C25_CallerSeesSequentialBuild ==
    \A t \in Threads : At(t, "validate") => self[threads[t].instance] = SequentialBuild

----------------------------------------------------------------------------
(* Properties of SimpleStatusHook *)

\* the progress characters written since the search began
ProgressCharacters ==
    SelectSeq(Value(status).written, LAMBDA text : text \in {"c", "."})

\* the events that have counted: those whose thread is past the store
Counted ==
    Value(status).events
        - Cardinality({t \in Threads : threads[t].pc \in {"acquire", "write", "load", "store"}})

\* C28: the counter is 0 when wfs_search_init has returned; whatever the order in
\* which the worker threads run, the counter is the number of events that have
\* counted and as many progress characters are written as events have written
\* theirs, so that when the N events since the search began are all done the
\* counter is N and N progress characters are written.
C28_NoLostUpdate ==
    /\ Value(status).called = "wfs_search_init" =>
          Value(status).prog_counter = 0 /\ Value(status).written = <<>>
    /\ Value(status).prog_counter = Counted
    /\ Len(ProgressCharacters)
          = Value(status).events
              - Cardinality({t \in Threads : threads[t].pc \in {"acquire", "write"}})
    /\ NoWorker =>
          /\ Value(status).prog_counter = Value(status).events
          /\ Len(ProgressCharacters) = Value(status).events

\* the three events of a search that began with wfs_search_init are done, and a
\* cache hit and a download were among them
C28_Witness ==
    /\ NoWorker
    /\ Value(status).events = MaxEvents
    /\ Value(status).prog_counter = MaxEvents
    /\ Value(status).result_count = MaxEvents
    /\ "c" \in SeqRange(Value(status).written) /\ "." \in SeqRange(Value(status).written)
    /\ Value(status).written[Len(Value(status).written)] = "\n"

----------------------------------------------------------------------------
(* Properties of the log in a replay session *)

\* the entries of the three namespaces, names and payloads, in the order written
NamespaceEntries(file) == SelectSeq(file, LAMBDA e : e.name \in LogPaths)

\* C29: once the replayer is there, no step of the session (an event the replayer
\* inherits from AbstractHook, an inject call that returns the recorded text or
\* raises LogReplayError, the close at exit) changes the entries or the payloads
\* of the meta, wfs and xml namespaces, in the archive the replayer has open and
\* in the one the record session left.
C29_ReplayLeavesLog ==
    [][~IsNone(replayer) =>
          /\ ~IsNone(replayer')
          /\ NamespaceEntries(Value(replayer').log_archive_file)
                = NamespaceEntries(Value(replayer).log_archive_file)
          /\ NamespaceEntries(Value(recorder').log_archive_file)
                = NamespaceEntries(Value(recorder).log_archive_file)]_vars

\* an inject call of the replayer failed with LogReplayError on a log that has
\* entries, and the replayer still has the entries the record session wrote
C29_Witness ==
    /\ ~IsNone(replayer)
    /\ ret.call \in InjectMethods
    /\ ret.exc.type = "LogReplayError"
    /\ Len(NamespaceEntries(Value(replayer).log_archive_file)) >= 2
    /\ Value(replayer).log_archive_file = Value(recorder).log_archive_file

\* an event the replayer inherits has returned on a log that has entries
C29_EventWitness ==
    /\ ~IsNone(replayer)
    /\ ret.call \in {"replayer." \o method : method \in LifecycleMethods}
    /\ Len(NamespaceEntries(Value(replayer).log_archive_file)) >= 2

----------------------------------------------------------------------------
(* Properties of the namespaces of the log *)

Namespaces == {"meta", "wfs", "xml"}

\* the entries of one namespace, names and payloads, in the order written
EntriesIn(file, namespace) ==
    SelectSeq(file, LAMBDA e : e.name \in LogPaths /\ NamespaceOf(e.name) = namespace)

\* the namespace of the request a call carries: a URL, a query, a permanent key
NamespaceOfCall(call) ==
    CASE call \in {"meta_received", "inject_meta_response",
                   "recorder.inject_meta_response"} -> "meta"
      [] call \in {"wfs_search_result_features", "inject_wfs_result_features",
                   "recorder.inject_wfs_result_features"} -> "wfs"
      [] call \in {"xml_retrieved", "inject_xml_retrieved",
                   "recorder.inject_xml_retrieved"} -> "xml"
      [] OTHER -> ""

\* the archive the hook that was called last works on
ArchiveOfCall ==
    IF ret.call \in ReplayerInjects THEN Value(replayer).log_archive_file
    ELSE Value(recorder).log_archive_file

\* an inject call answered with a text
Answered ==
    /\ NamespaceOfCall(ret.call) # ""
    /\ ret.call \notin RecorderEvents
    /\ ret.exc = NoExc
    /\ ~IsNone(ret.value)

\* an inject call is answered only from an entry of its own namespace
C30_AnsweredFromOwnNamespace ==
    Answered =>
        \E k \in 1..Len(EntriesIn(ArchiveOfCall, NamespaceOfCall(ret.call))) :
            /\ EntriesIn(ArchiveOfCall, NamespaceOfCall(ret.call))[k].name = ret.log_path
            /\ EntriesIn(ArchiveOfCall, NamespaceOfCall(ret.call))[k].data
                  = encode(Value(ret.value))

\* the entries of a namespace change only in an event of that namespace
C30_RecordedInOwnNamespace ==
    [][\A namespace \in Namespaces :
          (/\ ~IsNone(recorder)
           /\ Value(recorder').log_archive_file # Value(recorder).log_archive_file
           /\ EntriesIn(Value(recorder').log_archive_file, namespace)
                 # EntriesIn(Value(recorder).log_archive_file, namespace))
          => /\ ret'.call \in RecorderEvents
             /\ NamespaceOfCall(ret'.call) = namespace]_vars

\* C30: the meta, wfs and xml namespaces are independent key spaces: an event
\* creates or changes entries only in the namespace of its request, and an inject
\* call is answered only from an entry of the namespace of its request, also when
\* another namespace holds an entry with the same digest (a URL and a permanent
\* key that are the same string).
C30_IndependentNamespaces ==
    []C30_AnsweredFromOwnNamespace /\ C30_RecordedInOwnNamespace

\* the replayer found no xml entry for a permanent key whose digest has an entry
\* in the meta namespace, recorded for a URL that is the same string
C30_Witness ==
    /\ ~IsNone(replayer)
    /\ ret.call = "inject_xml_retrieved"
    /\ ret.exc.type = "LogReplayError"
    /\ ret.log_path = log_path_of("xml", md5(encode(<<98>>)))
    /\ Contains(namelist(Value(replayer).log_archive_file),
                log_path_of("meta", md5(encode(<<98>>))))
    /\ <<98>> \in Urls \cap PkeyObjects

====
